---------------------------- MODULE Spec2Model ----------------------------
(***************************************************************************)
(* Model of the interface-forge build engine: the deep merge of            *)
(* src/src/fixture-factory.ts and the TypeFactory of src/unnamed/part_010  *)
(* (counter, preBuild / performBuild / postBuild, build, buildSync, batch, *)
(* batchSync), with the validator of src/src/type-factory.ts.              *)
(***************************************************************************)
EXTENDS Integers, Sequences, FiniteSets, TLC

(***************************************************************************)
(* JavaScript values.  A value is a primitive or a reference to an object  *)
(* of the heap; the heap is a sequence of objects and an address is an     *)
(* index into it.  An object keeps its own keys in insertion order.        *)
(***************************************************************************)
Undefined == [t |-> "undef", v |-> 0]
Null == [t |-> "null", v |-> 0]
Num(n) == [t |-> "num", v |-> n]
ObjRef(a) == [t |-> "obj", v |-> a]

RecObj(ks, vs) == [kind |-> "rec", keys |-> ks, vals |-> vs]
ArrObj(vs) == [kind |-> "arr", keys |-> <<>>, vals |-> vs]

\* index of key k in the key sequence ks, 0 when absent
IndexOf(ks, k) ==
    IF \E i \in 1..Len(ks) : ks[i] = k
    THEN CHOOSE i \in 1..Len(ks) : ks[i] = k
    ELSE 0

\* obj[k]: the value under key k, undefined when the key is absent
GetKey(obj, k) ==
    IF IndexOf(obj.keys, k) = 0 THEN Undefined ELSE obj.vals[IndexOf(obj.keys, k)]

\* obj[k] = val: an existing key keeps its position, a new key is appended
SetKey(obj, k, val) ==
    IF IndexOf(obj.keys, k) = 0
    THEN [obj EXCEPT !.keys = Append(@, k), !.vals = Append(@, val)]
    ELSE [obj EXCEPT !.vals[IndexOf(obj.keys, k)] = val]

\* isRecord of @tool-belt/type-predicates on the values of the model
isRecord(h, x) == x.t = "obj" /\ h[x.v].kind = "rec"

(***************************************************************************)
(* merge(target, ...sources) of src/src/fixture-factory.ts.  The operators *)
(* thread the heap; the result is [heap, threw, result].                   *)
(***************************************************************************)
RECURSIVE merge(_, _, _)
RECURSIVE mergeKeys(_, _, _, _)
RECURSIVE mergeSources(_, _, _, _)

\* variant: the filter forgets the test for an empty source
mergableSources_anyRecord(h, sources) ==
    SelectSeq(sources, LAMBDA s : isRecord(h, s))

\* sources.filter((source) => isRecord(source) && Object.keys(source).length > 0)
mergableSources(h, sources) ==
    SelectSeq(sources, LAMBDA s : isRecord(h, s) /\ Len(h[s.v].keys) > 0)

\* variant: const output = target, no copy
spreadTarget_inPlace(h, target) == [heap |-> h, out |-> target.v]

\* const output = { ...target }: a new object holding the own keys of target
spreadTarget(h, target) ==
    [heap |-> Append(h, h[target.v]), out |-> Len(h) + 1]

\* variant: a shallow merge, the incoming value always replaces
bothRecords_shallow(h, sourceValue, targetValue) == FALSE

\* isRecord(sourceValue) && isRecord(targetValue)
bothRecords(h, sourceValue, targetValue) ==
    isRecord(h, sourceValue) /\ isRecord(h, targetValue)

\* variant: only a key that is not yet in the output is assigned
assignValue_keepExisting(h, out, key, val) ==
    IF IndexOf(h[out].keys, key) # 0 THEN h ELSE [h EXCEPT ![out] = SetKey(@, key, val)]

\* output[key] = val
assignValue(h, out, key, val) == [h EXCEPT ![out] = SetKey(@, key, val)]

\* the body of the for...in loop over the keys of one source, from key j on
mergeKeys(h, out, src, j) ==
    IF j > Len(h[src].keys)
    THEN [heap |-> h, threw |-> FALSE, result |-> ObjRef(out)]
    ELSE LET key == h[src].keys[j]
             sourceValue == h[src].vals[j]
             targetValue == GetKey(h[out], key)
         IN  IF bothRecords(h, sourceValue, targetValue)
             THEN LET r == merge(h, targetValue, <<sourceValue>>)
                  IN  IF r.threw
                      THEN r
                      ELSE mergeKeys(assignValue(r.heap, out, key, r.result),
                                     out, src, j + 1)
             ELSE mergeKeys(assignValue(h, out, key, sourceValue), out, src, j + 1)

\* for (const source of sources), from source i on; a non-record is skipped
mergeSources(h, out, sources, i) ==
    IF i > Len(sources)
    THEN [heap |-> h, threw |-> FALSE, result |-> ObjRef(out)]
    ELSE IF ~isRecord(h, sources[i])
         THEN mergeSources(h, out, sources, i + 1)
         ELSE LET r == mergeKeys(h, out, sources[i].v, 1)
              IN  IF r.threw THEN r ELSE mergeSources(r.heap, out, sources, i + 1)

merge(h, target, sources) ==
    IF ~isRecord(h, target)
    THEN IF Len(mergableSources(h, sources)) = 0
         THEN [heap |-> h, threw |-> FALSE, result |-> target]
         ELSE [heap |-> h, threw |-> TRUE, result |-> Undefined]
    ELSE LET c == spreadTarget(h, target)
         IN  mergeSources(c.heap, c.out, sources, 1)

(***************************************************************************)
(* Trees: the structure reachable from a value, without the addresses.     *)
(* Tree reads a value of the heap, Load allocates a tree in the heap.      *)
(***************************************************************************)
Leaf(t, n) == [t |-> t, v |-> n, keys |-> <<>>, vals |-> <<>>]
RecT(ks, vs) == [t |-> "rec", v |-> 0, keys |-> ks, vals |-> vs]
ArrT(vs) == [t |-> "arr", v |-> 0, keys |-> <<>>, vals |-> vs]
UndefT == Leaf("undef", 0)
NullT == Leaf("null", 0)
NumT(n) == Leaf("num", n)

\* k in tr, and tr[k] for a key that is in tr
HasKeyT(tr, k) == IndexOf(tr.keys, k) # 0
ValT(tr, k) == tr.vals[IndexOf(tr.keys, k)]

RECURSIVE Tree(_, _)
Tree(h, x) ==
    IF x.t # "obj"
    THEN Leaf(x.t, x.v)
    ELSE [t |-> h[x.v].kind, v |-> 0, keys |-> h[x.v].keys,
          vals |-> [i \in 1..Len(h[x.v].vals) |-> Tree(h, h[x.v].vals[i])]]

RECURSIVE Load(_, _)
RECURSIVE LoadSeq(_, _, _)
\* loads the trees ts[i..] one after the other; acc holds the values so far
LoadSeq(h, ts, acc) ==
    IF Len(acc) = Len(ts)
    THEN [heap |-> h, vals |-> acc]
    ELSE LET r == Load(h, ts[Len(acc) + 1])
         IN  LoadSeq(r.heap, ts, Append(acc, r.val))

Load(h, tr) ==
    IF tr.t \notin {"rec", "arr"}
    THEN [heap |-> h, val |-> [t |-> tr.t, v |-> tr.v]]
    ELSE LET r == LoadSeq(h, tr.vals, <<>>)
             obj == [kind |-> tr.t, keys |-> tr.keys, vals |-> r.vals]
         IN  [heap |-> Append(r.heap, obj), val |-> ObjRef(Len(r.heap) + 1)]

(***************************************************************************)
(* The calls of merge that are checked: a base and up to MaxSources        *)
(* sources, allocated in the heap before the call.                         *)
(***************************************************************************)
MaxSources == 2

VARIABLES heap, heapBefore, m_pc, m_target, m_sources, m_result, m_threw

mergeVars == <<heap, heapBefore, m_pc, m_target, m_sources, m_result, m_threw>>

InnerRecs ==
    { RecT(<<>>, <<>>),
      RecT(<<"x">>, <<NumT(1)>>),
      RecT(<<"y">>, <<NumT(3)>>),
      RecT(<<"x", "y">>, <<NumT(1), NumT(2)>>) }

LeafTrees == {UndefT, NullT, NumT(1), NumT(2), ArrT(<<NumT(1), NumT(2), NumT(3)>>)}

TopVals == LeafTrees \cup InnerRecs

TopRecs ==
    {RecT(<<>>, <<>>)}
    \cup {RecT(<<k>>, <<x>>) : k \in {"a", "b"}, x \in TopVals}
    \cup {RecT(<<"a", "b">>, <<x, y>>) : x \in TopVals, y \in TopVals}

BaseTrees == TopRecs \cup {NumT(5), NullT, UndefT, ArrT(<<NumT(1), NumT(2), NumT(3)>>)}

LaterSources ==
    { UndefT,
      RecT(<<>>, <<>>),
      RecT(<<"a">>, <<NumT(2)>>),
      RecT(<<"a">>, <<RecT(<<"y">>, <<NumT(3)>>)>>),
      RecT(<<"b", "a">>, <<ArrT(<<NumT(1)>>), NullT>>) }

\* the sequences of sources: the first of BaseTrees, the others of LaterSources
RECURSIVE SourceSeqs(_)
SourceSeqs(n) ==
    IF n = 0 THEN {<<>>}
    ELSE IF n = 1 THEN {<<>>} \cup {<<s>> : s \in BaseTrees}
    ELSE SourceSeqs(n - 1)
         \cup {Append(ss, s) : ss \in {q \in SourceSeqs(n - 1) : Len(q) = n - 1},
                               s \in LaterSources}

InitMergeCall ==
    /\ \E bt \in BaseTrees, sts \in SourceSeqs(MaxSources), alias \in BOOLEAN :
          LET b == Load(<<>>, bt)
              ss == LoadSeq(b.heap, sts, <<>>)
          IN  /\ alias => Len(sts) <= 1
              /\ heap = ss.heap
              /\ m_target = b.val
              \* with alias the base itself is passed again as the last source
              /\ m_sources = IF alias THEN Append(ss.vals, b.val) ELSE ss.vals
    /\ heapBefore = heap
    /\ m_pc = "ready"
    /\ m_result = Undefined
    /\ m_threw = FALSE

\* one call merge(m_target, ...m_sources)
MergeCall ==
    /\ m_pc = "ready"
    /\ LET r == merge(heap, m_target, m_sources)
       IN  /\ heap' = r.heap
           /\ m_result' = r.result
           /\ m_threw' = r.threw
    /\ m_pc' = "done"
    /\ UNCHANGED <<heapBefore, m_target, m_sources>>

(***************************************************************************)
(* Properties of merge (specification SpecMerge).                          *)
(***************************************************************************)
MergeDone == m_pc = "done"
BaseIsRecord == isRecord(heapBefore, m_target)
BaseT == Tree(heapBefore, m_target)
SourceT(i) == Tree(heapBefore, m_sources[i])
ResultT == Tree(heap, m_result)

\* every key of the override exists in the base with a non-mapping value
OverridesPlainKeys(b, o) ==
    \A i \in 1..Len(o.keys) : HasKeyT(b, o.keys[i]) /\ ValT(b, o.keys[i]).t # "rec"

\* C7: override precedence.  For a mapping base B and one mapping override O
\* whose keys all exist in B with a non-mapping value, merge(B, O) returns a
\* mapping with exactly the keys of B, in which every key of O has the value
\* of O and every other key of B the value of B.
C7_OverridePrecedence ==
    (MergeDone /\ BaseIsRecord /\ Len(m_sources) = 1
       /\ isRecord(heapBefore, m_sources[1])
       /\ OverridesPlainKeys(BaseT, SourceT(1)))
    => /\ ~m_threw
       /\ ResultT.t = "rec"
       /\ ResultT.keys = BaseT.keys
       /\ \A i \in 1..Len(BaseT.keys) :
             LET k == BaseT.keys[i]
             IN  ValT(ResultT, k) = IF HasKeyT(SourceT(1), k)
                                    THEN ValT(SourceT(1), k)
                                    ELSE ValT(BaseT, k)

\* a call in the case of C7 that replaces one key and keeps another
C7_Witness ==
    /\ MergeDone /\ BaseIsRecord /\ Len(m_sources) = 1
    /\ isRecord(heapBefore, m_sources[1])
    /\ OverridesPlainKeys(BaseT, SourceT(1))
    /\ Len(BaseT.keys) = 2 /\ Len(SourceT(1).keys) = 1
    /\ ValT(SourceT(1), SourceT(1).keys[1]) # ValT(BaseT, SourceT(1).keys[1])
    /\ ValT(ResultT, SourceT(1).keys[1]) = ValT(SourceT(1), SourceT(1).keys[1])

\* the recursion rule on trees: the keys of b, then the new keys of s; a key
\* of s whose two values are records is merged, any other key of s replaces
RECURSIVE RuleMerge(_, _)
RuleMerge(b, s) ==
    LET ks == b.keys \o SelectSeq(s.keys, LAMBDA k : ~HasKeyT(b, k))
        val(k) == IF ~HasKeyT(s, k) THEN ValT(b, k)
                  ELSE IF HasKeyT(b, k) /\ ValT(b, k).t = "rec" /\ ValT(s, k).t = "rec"
                       THEN RuleMerge(ValT(b, k), ValT(s, k))
                       ELSE ValT(s, k)
    IN  RecT(ks, [i \in 1..Len(ks) |-> val(ks[i])])

\* the sources applied left to right, a source that is no record skipped
RECURSIVE RuleMergeAll(_, _, _)
RuleMergeAll(b, ss, i) ==
    IF i > Len(ss) THEN b
    ELSE RuleMergeAll(IF ss[i].t = "rec" THEN RuleMerge(b, ss[i]) ELSE b, ss, i + 1)

\* C8: recursion rule.  With a mapping base, merge returns the base with the
\* sources applied left to right: under a key of a source two plain records
\* are merged recursively (keys of the base record only are kept), any other
\* incoming value (primitive, null, undefined, array) replaces the existing
\* one as a whole; a later source wins on a conflicting key.
C8_RecursionRule ==
    (MergeDone /\ BaseIsRecord)
    => /\ ~m_threw
       /\ ResultT = RuleMergeAll(BaseT, [i \in 1..Len(m_sources) |-> SourceT(i)], 1)

\* two sources on a record base: the first merges a nested record and keeps a
\* key of the base record, the second replaces the merged record
C8_Witness ==
    /\ MergeDone /\ BaseIsRecord /\ Len(m_sources) = 2
    /\ BaseT = RecT(<<"a">>, <<RecT(<<"x", "y">>, <<NumT(1), NumT(2)>>)>>)
    /\ SourceT(1) = RecT(<<"a">>, <<RecT(<<"y">>, <<NumT(3)>>)>>)
    /\ SourceT(2) = RecT(<<"b", "a">>, <<ArrT(<<NumT(1)>>), NullT>>)
    /\ ResultT = RecT(<<"a", "b">>, <<NullT, ArrT(<<NumT(1)>>)>>)

\* the example of the recursion rule: merge({a:{x:1,y:2}}, {a:{y:3}})
C8_Example ==
    /\ MergeDone /\ Len(m_sources) = 1
    /\ BaseT = RecT(<<"a">>, <<RecT(<<"x", "y">>, <<NumT(1), NumT(2)>>)>>)
    /\ SourceT(1) = RecT(<<"a">>, <<RecT(<<"y">>, <<NumT(3)>>)>>)
    /\ ResultT = RecT(<<"a">>, <<RecT(<<"x", "y">>, <<NumT(1), NumT(3)>>)>>)

\* C9: merge never mutates its inputs.  After the call, returned or thrown,
\* every object that existed before the call (the base, the sources and all
\* records and arrays reachable from them) has the keys and values it had;
\* for a mapping base the returned object is a new one.
C9_NoMutation ==
    MergeDone
    => /\ Len(heap) >= Len(heapBefore)
       /\ \A a \in 1..Len(heapBefore) : heap[a] = heapBefore[a]
       /\ BaseIsRecord => (m_result.t = "obj" /\ m_result.v > Len(heapBefore))

\* a call on a mapping base that wrote keys and merged a nested record
C9_Witness ==
    /\ MergeDone /\ BaseIsRecord /\ Len(m_sources) >= 1
    /\ isRecord(heapBefore, m_sources[1])
    /\ \E i \in 1..Len(SourceT(1).keys) :
          LET k == SourceT(1).keys[i]
          IN  /\ HasKeyT(BaseT, k)
              /\ ValT(BaseT, k).t = "rec" /\ ValT(SourceT(1), k).t = "rec"
              /\ ValT(ResultT, k) # ValT(BaseT, k)
    /\ ResultT # BaseT

\* some source is a mapping with at least one key
SomeNonEmptyMapping ==
    \E i \in 1..Len(m_sources) :
        /\ m_sources[i].t = "obj"
        /\ heapBefore[m_sources[i].v].kind = "rec"
        /\ heapBefore[m_sources[i].v].keys # <<>>

\* C10: non-mapping base.  When every source is a non-mapping or an empty
\* mapping the base itself is returned; when a source is a non-empty mapping
\* merge throws and returns nothing.
C10_NonMappingBase ==
    (MergeDone /\ ~BaseIsRecord)
    => IF SomeNonEmptyMapping
       THEN m_threw /\ m_result = Undefined
       ELSE ~m_threw /\ m_result = m_target /\ ResultT = BaseT

\* merge(5, {}) returned 5
C10_Witness ==
    /\ MergeDone /\ ~BaseIsRecord /\ BaseT = NumT(5)
    /\ Len(m_sources) = 1 /\ SourceT(1) = RecT(<<>>, <<>>)
    /\ ~m_threw /\ m_result = Num(5)

\* merge(5, {a: ...}) threw
C10_WitnessThrow ==
    /\ MergeDone /\ BaseT = NumT(5) /\ SomeNonEmptyMapping /\ m_threw

(***************************************************************************)
(* The TypeFactory of src/unnamed/part_010.  Schemas, overrides and built  *)
(* values are trees; the leaves of a schema are numbers, arrays, the       *)
(* required marker (BuildArgProxy), the derived marker, a promise of a     *)
(* number, and Deferred References whose producer returns the iteration    *)
(* ("refSync"), a promise of it ("refAsync") or throws ("refThrow").       *)
(***************************************************************************)
RequiredT == Leaf("required", 0)
DerivedT == Leaf("derived", 0)
PromiseT(n) == Leaf("promise", n)
RefSyncT == Leaf("refSync", 0)
RefAsyncT == Leaf("refAsync", 0)
RefThrowT == Leaf("refThrow", 0)

\* tr[k] = x on a tree
SetKeyT(tr, k, x) ==
    IF IndexOf(tr.keys, k) = 0
    THEN [tr EXCEPT !.keys = Append(@, k), !.vals = Append(@, x)]
    ELSE [tr EXCEPT !.vals[IndexOf(tr.keys, k)] = x]

\* a value that may be wrapped in a promise
Plain(tr) == [promise |-> FALSE, tree |-> tr]
Promised(tr) == [promise |-> TRUE, tree |-> tr]
isPromise(x) == x.promise

\* errors: the name of the message and the key paths it names
NoError == [name |-> "NONE", paths |-> <<>>]
Err(n) == [name |-> n, paths |-> <<>>]
ErrAt(n, ps) == [name |-> n, paths |-> ps]

\* post-build functions: the engine-level one and the per-call one return the
\* value with the iteration stored under their own key
NoFactory == [who |-> "none", mode |-> "none"]
Factory(w, m) == [who |-> w, mode |-> m]

\* the options of one call: nothing, an overrides object, an overrides
\* function of the iteration, or the bundle {overrides, factory}
NoOptions ==
    [form |-> "none", ov |-> UndefT, ovFn |-> FALSE, ovAsync |-> FALSE, factory |-> NoFactory]
Options(f, o, isFn, isAsync, fac) ==
    [form |-> f, ov |-> o, ovFn |-> isFn, ovAsync |-> isAsync, factory |-> fac]

\* merge(defaults, overrides) on trees: both are allocated, merged, read back
mergeT(d, o) ==
    LET b == Load(<<>>, d)
        s == Load(b.heap, o)
        r == merge(s.heap, b.val, <<s.val>>)
    IN  [threw |-> r.threw, tree |-> Tree(r.heap, r.result)]

\* variant: the counter is read and not incremented before the first await
snapshotCounter_noIncrement(c) == [iteration |-> c, counter |-> c]

\* const iteration = this.counter; this.counter++
snapshotCounter(c) == [iteration |-> c, counter |-> c + 1]

\* variant: this.defaults(this.counter), read after the increment
defaultsArgument_counter(iteration, counterNow) == counterNow

\* the argument of this.defaults(iteration)
defaultsArgument(iteration, counterNow) == iteration

\* this.defaults, a schema or a function of the iteration that stores its
\* argument under the key id; either one may be wrapped in a promise
resolveDefaults(cfg, arg) ==
    LET tr == IF cfg.fn THEN SetKeyT(cfg.schema, "id", NumT(arg)) ELSE cfg.schema
    IN  IF cfg.async THEN Promised(tr) ELSE Plain(tr)

\* parseOptions(options, iteration): [overrides, factory]
parseOptions(options, iteration) ==
    IF options.form = "none"
    THEN [overrides |-> Plain(UndefT), factory |-> NoFactory, called |-> FALSE]
    ELSE LET tr == IF options.ovFn
                   THEN SetKeyT(options.ov, "a", NumT(iteration))
                   ELSE options.ov
         IN  [overrides |-> IF options.ovAsync THEN Promised(tr) ELSE Plain(tr),
              factory |-> IF options.form = "bundle" THEN options.factory ELSE NoFactory,
              called |-> options.ovFn]

\* variant: both checks throw the error of the defaults
preBuildError_sameMessage(isSync, defaults, overrides) ==
    IF isSync /\ (isPromise(defaults) \/ isPromise(overrides))
    THEN Err("PROMISE_DEFAULTS")
    ELSE NoError

\* the sync checks of preBuild
preBuildError(isSync, defaults, overrides) ==
    IF isSync /\ isPromise(defaults) THEN Err("PROMISE_DEFAULTS")
    ELSE IF isSync /\ isPromise(overrides) THEN Err("PROMISE_OVERRIDES")
    ELSE NoError

\* variant: the engine-level function wins over the one of the options
selectFactory_engineFirst(own, engine) ==
    IF engine = NoFactory THEN own ELSE engine

\* const [overrides, factory = this.factory] = parseOptions(...): the default
\* applies when the options give no factory
selectFactory(own, engine) ==
    IF own = NoFactory THEN engine ELSE own

\* variant: the counter is incremented after the sync checks have passed
preBuild_incrementLate(c, cfg, engineFactory, isSync, options) ==
    LET defaults == resolveDefaults(cfg, c)
        po == parseOptions(options, c)
        err == preBuildError(isSync, defaults, po.overrides)
    IN  [counter |-> IF err = NoError THEN c + 1 ELSE c,
         iteration |-> c,
         defaults |-> defaults,
         overrides |-> po.overrides,
         factory |-> selectFactory(po.factory, engineFactory),
         dArg |-> IF cfg.fn THEN c ELSE -1,
         err |-> err]

preBuild(c, cfg, engineFactory, isSync, options) ==
    LET snap == snapshotCounter(c)
        arg == defaultsArgument(snap.iteration, snap.counter)
        defaults == resolveDefaults(cfg, arg)
        po == parseOptions(options, snap.iteration)
    IN  [counter |-> snap.counter,
         iteration |-> snap.iteration,
         defaults |-> defaults,
         overrides |-> po.overrides,
         factory |-> selectFactory(po.factory, engineFactory),
         dArg |-> IF cfg.fn THEN arg ELSE -1,
         err |-> preBuildError(isSync, defaults, po.overrides)]

\* validate_schema: the keys of the schema that hold the required marker
missingValues(schema) ==
    LET ks == SelectSeq(schema.keys, LAMBDA k : ValT(schema, k).t = "required")
    IN  [i \in 1..Len(ks) |-> <<ks[i]>>]

validate_schema(schema) ==
    IF Len(missingValues(schema)) # 0
    THEN ErrAt("MISSING_BUILD_ARGS", missingValues(schema))
    ELSE NoError

\* throwIfPromise(value, key) of the synchronous walker
throwIfPromise(isSync, key) ==
    IF isSync THEN ErrAt("PROMISE_VALUE", <<<<key>>>>) ELSE NoError

RECURSIVE parse_schema(_, _, _)
RECURSIVE parseKeys(_, _, _, _, _)

\* the value stored under one key of the output
parseValue(raw, key, iteration, isSync) ==
    IF raw.t = "promise"
    THEN [err |-> throwIfPromise(isSync, key), tree |-> NumT(raw.v)]
    ELSE IF raw.t = "refSync"
    THEN [err |-> NoError, tree |-> NumT(iteration)]
    ELSE IF raw.t = "refAsync"
    THEN [err |-> throwIfPromise(isSync, key), tree |-> NumT(iteration)]
    ELSE IF raw.t = "refThrow"
    THEN [err |-> Err("PRODUCER_THROWN"), tree |-> UndefT]
    ELSE IF raw.t \in {"rec", "required", "derived", "date"}
    THEN parse_schema(raw, iteration, isSync)
    ELSE [err |-> NoError, tree |-> raw]

\* the loop over Object.entries(schema), from entry j on
parseKeys(schema, iteration, isSync, j, output) ==
    IF j > Len(schema.keys)
    THEN [err |-> NoError, tree |-> output]
    ELSE LET r == parseValue(schema.vals[j], schema.keys[j], iteration, isSync)
         IN  IF r.err # NoError
             THEN [err |-> r.err, tree |-> UndefT]
             ELSE parseKeys(schema, iteration, isSync, j + 1,
                            SetKeyT(output, schema.keys[j], r.tree))

parse_schema(schema, iteration, isSync) ==
    parseKeys(schema, iteration, isSync, 1, RecT(<<>>, <<>>))

\* merge and validation of performBuild: the merged schema or the error
mergedSchema(defaults, overrides) ==
    LET m == mergeT(defaults, overrides)
    IN  IF m.threw
        THEN [err |-> Err("MERGE_NON_OBJECT"), schema |-> UndefT]
        ELSE [err |-> validate_schema(m.tree), schema |-> m.tree]

performBuild(defaults, overrides, iteration, isSync) ==
    LET ms == mergedSchema(defaults, overrides)
    IN  IF ms.err # NoError
        THEN [err |-> ms.err, tree |-> UndefT]
        ELSE parse_schema(ms.schema, iteration, isSync)

\* factory ? factory(value, iteration) : value
callFactory(factory, value, iteration) ==
    IF factory = NoFactory THEN [err |-> NoError, result |-> Plain(value)]
    ELSE IF factory.mode = "throws" THEN [err |-> Err("FACTORY_THROWN"), result |-> Plain(UndefT)]
    ELSE LET out == SetKeyT(value, factory.who, NumT(iteration))
         IN  [err |-> NoError,
              result |-> IF factory.mode = "async" THEN Promised(out) ELSE Plain(out)]

\* validateFactoryResult: no derived marker is left at a key of the result
validateFactoryResult(value) ==
    LET ks == SelectSeq(value.keys, LAMBDA k : ValT(value, k).t = "derived")
    IN  IF Len(ks) # 0
        THEN ErrAt("MISSING_DERIVED_PARAMETERS", [i \in 1..Len(ks) |-> <<ks[i]>>])
        ELSE NoError

\* postBuild up to the point where a promise result is awaited
postBuildError(isSync, result) ==
    IF isPromise(result)
    THEN IF isSync THEN Err("PROMISE_FACTORY") ELSE NoError
    ELSE validateFactoryResult(result.tree)

\* what a buildSync call computed, and the error it threw if it threw
syncOutcome(pre, err, fArg, result) ==
    [counter |-> pre.counter, iteration |-> pre.iteration,
     dArg |-> pre.dArg, fArg |-> fArg,
     defaults |-> pre.defaults, overrides |-> pre.overrides,
     factory |-> pre.factory, err |-> err, result |-> result]

\* buildSync from this.postBuild(true, ...) on, f being what the call of the
\* post-build function gave
syncPostBuild(pre, f) ==
    LET called == IF pre.factory = NoFactory THEN -1 ELSE pre.iteration
        err == IF f.err # NoError THEN f.err ELSE postBuildError(TRUE, f.result)
    IN  syncOutcome(pre, err, called, IF err = NoError THEN f.result.tree ELSE UndefT)

\* buildSync from the return of this.performBuild on
syncPerformed(pre, pb) ==
    IF pb.err # NoError
    THEN syncOutcome(pre, pb.err, -1, UndefT)
    ELSE syncPostBuild(pre, callFactory(pre.factory, pb.tree, pre.iteration))

\* buildSync from the return of this.preBuild on
syncPrepared(pre) ==
    IF pre.err # NoError
    THEN syncOutcome(pre, pre.err, -1, UndefT)
    ELSE syncPerformed(pre, performBuild(pre.defaults.tree, pre.overrides.tree,
                                         pre.iteration, TRUE))

\* buildSync: the whole call, with what it computed on the way
buildSync(c, cfg, engineFactory, options) ==
    syncPrepared(preBuild(c, cfg, engineFactory, TRUE, options))

(***************************************************************************)
(* The state of one TypeFactory and of the calls made on it.               *)
(***************************************************************************)
MaxCalls == 2
MaxBatch == 2
MaxResets == 1

VARIABLES
    counter,        \* this.counter
    cfg,            \* this.defaults: [fn, async, schema]
    engineFactory,  \* this.factory
    calls,          \* the build / buildSync invocations, in the order of their start
    batches,        \* the batch / batchSync invocations
    resets          \* the values given to resetCounter so far, after the initial 0

buildVars == <<counter, cfg, engineFactory, calls, batches, resets>>

PlainSchema == RecT(<<"a", "b">>, <<NumT(0), RecT(<<"c">>, <<NumT(1)>>)>>)

\* the engines: defaults (static or function, plain or promise) and factory
Engines ==
    { [fn |-> FALSE, async |-> FALSE, factory |-> NoFactory, schema |-> PlainSchema],
      [fn |-> TRUE, async |-> FALSE, factory |-> Factory("engine", "sync"),
       schema |-> PlainSchema],
      [fn |-> TRUE, async |-> TRUE, factory |-> Factory("engine", "sync"),
       schema |-> PlainSchema],
      [fn |-> TRUE, async |-> FALSE, factory |-> Factory("engine", "async"),
       schema |-> RecT(<<"a", "b">>, <<RefSyncT, RecT(<<"c">>, <<NumT(1)>>)>>)],
      [fn |-> TRUE, async |-> FALSE, factory |-> Factory("engine", "throws"),
       schema |-> PlainSchema],
      [fn |-> FALSE, async |-> FALSE, factory |-> Factory("engine", "sync"),
       schema |-> RecT(<<"a", "b">>, <<RequiredT, RecT(<<"c">>, <<RequiredT>>)>>)],
      [fn |-> TRUE, async |-> FALSE, factory |-> NoFactory,
       schema |-> RecT(<<"a", "b">>, <<NumT(0), RecT(<<"c">>, <<RequiredT>>)>>)],
      [fn |-> TRUE, async |-> FALSE, factory |-> Factory("engine", "sync"),
       schema |-> RecT(<<"a", "b">>, <<PromiseT(4), RecT(<<"c">>, <<RefAsyncT>>)>>)],
      [fn |-> FALSE, async |-> FALSE, factory |-> Factory("engine", "sync"),
       schema |-> RecT(<<"a", "b">>, <<RefThrowT, RecT(<<"c">>, <<NumT(1)>>)>>)] }

FullOverrides == RecT(<<"a", "b">>, <<NumT(1), RecT(<<"c">>, <<NumT(2)>>)>>)

\* the options a call is made with
OptionSet ==
    { NoOptions,
      Options("plain", RecT(<<"a">>, <<NumT(7)>>), TRUE, FALSE, NoFactory),
      Options("bundle", FullOverrides, FALSE, FALSE, Factory("call", "sync")),
      Options("bundle", RecT(<<"a">>, <<NumT(7)>>), TRUE, TRUE, Factory("call", "async")) }

ResetValues == {5}

\* the record of one invocation of build or buildSync
Call(kind, b, options, pre, pc, err, value, fArg, result) ==
    [kind |-> kind, batch |-> b, options |-> options,
     epoch |-> Len(resets), iteration |-> pre.iteration,
     dArg |-> pre.dArg, fArg |-> fArg,
     defaults |-> pre.defaults, overrides |-> pre.overrides, factory |-> pre.factory,
     pc |-> pc, err |-> err, value |-> value, result |-> result]

InitBuild ==
    /\ counter = 0
    /\ \E e \in Engines :
          /\ cfg = [fn |-> e.fn, async |-> e.async, schema |-> e.schema]
          /\ engineFactory = e.factory
    /\ calls = <<>>
    /\ batches = <<>>
    /\ resets = <<>>

\* resetCounter(value = 0)
ResetCounter(v) ==
    /\ Len(resets) < MaxResets
    /\ counter' = v
    /\ resets' = Append(resets, v)
    /\ UNCHANGED <<cfg, engineFactory, calls, batches>>

\* the record of a finished buildSync call
SyncCall(b, options, r) ==
    [kind |-> "sync", batch |-> b, options |-> options,
     epoch |-> Len(resets), iteration |-> r.iteration,
     dArg |-> r.dArg, fArg |-> r.fArg,
     defaults |-> r.defaults, overrides |-> r.overrides, factory |-> r.factory,
     pc |-> IF r.err = NoError THEN "done" ELSE "failed",
     err |-> r.err, value |-> UndefT, result |-> r.result]

\* buildSync(options)
BuildSync(options) ==
    /\ Len(calls) < MaxCalls
    /\ LET r == buildSync(counter, cfg, engineFactory, options)
       IN  /\ counter' = r.counter
           /\ calls' = Append(calls, SyncCall(0, options, r))
    /\ UNCHANGED <<cfg, engineFactory, batches, resets>>

\* the synchronous part of build(options), up to the first await
startBuild(c, b, options) ==
    LET pre == preBuild(c, cfg, engineFactory, FALSE, options)
    IN  [counter |-> pre.counter,
         call |-> Call("async", b, options, pre, "awaitArgs", NoError,
                       UndefT, -1, UndefT)]

\* variant: Promise.allSettled, the batch waits for every build and resolves
\* with the values of the builds that are done
settle_allSettled(cs, bs) ==
    [b \in 1..Len(bs) |->
        IF bs[b].status # "pending" THEN bs[b]
        ELSE LET range == bs[b].first..(bs[b].first + bs[b].size - 1)
             IN  IF \A k \in range : cs[k].pc \in {"done", "failed"}
                 THEN [bs[b] EXCEPT
                         !.status = "resolved",
                         !.results = [i \in 1..bs[b].size |-> cs[bs[b].first + i - 1].result]]
                 ELSE bs[b]]

\* Promise.all: a pending batch rejects with the failure of one of its
\* builds and resolves, in the order of the builds, when all are done
settle(cs, bs) ==
    [b \in 1..Len(bs) |->
        IF bs[b].status # "pending" THEN bs[b]
        ELSE LET range == bs[b].first..(bs[b].first + bs[b].size - 1)
             IN  IF \E k \in range : cs[k].pc = "failed"
                 THEN [bs[b] EXCEPT
                         !.status = "rejected",
                         !.err = cs[CHOOSE k \in range : cs[k].pc = "failed"].err]
                 ELSE IF \A k \in range : cs[k].pc = "done"
                 THEN [bs[b] EXCEPT
                         !.status = "resolved",
                         !.results = [i \in 1..bs[b].size |-> cs[bs[b].first + i - 1].result]]
                 ELSE bs[b]]

\* build(options): the call itself
BuildStart(options) ==
    /\ Len(calls) < MaxCalls
    /\ LET s == startBuild(counter, 0, options)
       IN  /\ counter' = s.counter
           /\ calls' = Append(calls, s.call)
    /\ UNCHANGED <<cfg, engineFactory, batches, resets>>

\* build from this.postBuild(false, ...) on, f being what the call of the
\* post-build function gave: a promise result is awaited
asyncPostBuild(c, f) ==
    LET e == IF f.err # NoError THEN f.err ELSE postBuildError(FALSE, f.result)
    IN  IF e # NoError THEN [c EXCEPT !.pc = "failed", !.err = e]
        ELSE IF isPromise(f.result)
        THEN [c EXCEPT !.pc = "awaitFactory", !.result = f.result.tree]
        ELSE [c EXCEPT !.pc = "done", !.result = f.result.tree]

\* build from the return of this.performBuild on
asyncPerformed(c, pb) ==
    IF pb.err # NoError
    THEN [c EXCEPT !.pc = "failed", !.err = pb.err]
    ELSE asyncPostBuild([c EXCEPT !.value = pb.tree,
                                  !.fArg = IF c.factory = NoFactory THEN -1 ELSE c.iteration],
                        callFactory(c.factory, pb.tree, c.iteration))

\* build after await defaults and await overrides
asyncPrepared(c) ==
    asyncPerformed(c, performBuild(c.defaults.tree, c.overrides.tree, c.iteration, FALSE))

\* variant: the rejection of a batch cancels its builds that are not done
resumable_cancelled(c, bs) ==
    c.pc = "awaitArgs"
    /\ (IF c.batch = 0 THEN TRUE ELSE bs[c.batch].status # "rejected")

\* a build that awaits its arguments goes on when they arrive, whatever
\* became of the Promise.all of its batch
resumable(c, bs) == c.pc = "awaitArgs"

\* build resumes after its awaits: merge, validation, the walk of the schema,
\* the post-build function and postBuild.  None of it reads or writes the
\* counter or another call.
BuildResumed(k) ==
    /\ k \in 1..Len(calls)
    /\ resumable(calls[k], batches)
    /\ LET cs == [calls EXCEPT ![k] = asyncPrepared(@)]
       IN  /\ calls' = cs
           /\ batches' = settle(cs, batches)
    /\ UNCHANGED <<counter, cfg, engineFactory, resets>>

\* the promise returned by the post-build function resolves
BuildFactoryResolved(k) ==
    /\ k \in 1..Len(calls)
    /\ calls[k].pc = "awaitFactory"
    /\ LET e == validateFactoryResult(calls[k].result)
           cs == IF e # NoError
                 THEN [calls EXCEPT ![k].pc = "failed", ![k].err = e]
                 ELSE [calls EXCEPT ![k].pc = "done"]
       IN  /\ calls' = cs
           /\ batches' = settle(cs, batches)
    /\ UNCHANGED <<counter, cfg, engineFactory, resets>>

\* variant: this.resetCounter() before the builds of a batch
batchStartCounter_reset(c) == 0

\* the counter a batch starts from
batchStartCounter(c) == c

\* new Array(size).fill(options).map(this.build): the builds start in order
RECURSIVE startBuilds(_, _, _, _, _)
startBuilds(c, b, options, size, acc) ==
    IF Len(acc) = size
    THEN [counter |-> c, calls |-> acc]
    ELSE LET s == startBuild(c, b, options)
         IN  startBuilds(s.counter, b, options, size, Append(acc, s.call))

\* batch(size, options)
Batch(size, options) ==
    /\ Len(calls) + size <= MaxCalls
    /\ LET b == Len(batches) + 1
           r == startBuilds(batchStartCounter(counter), b, options, size, <<>>)
       IN  /\ counter' = r.counter
           /\ calls' = calls \o r.calls
           /\ batches' = Append(batches,
                  [kind |-> "async", first |-> Len(calls) + 1, size |-> size,
                   counterBefore |-> counter, counterAfter |-> r.counter,
                   status |-> "pending", err |-> NoError, results |-> <<>>])
    /\ UNCHANGED <<cfg, engineFactory, resets>>

\* one buildSync call of a batchSync, r being what it computed
appendSync(acc, b, options, r) ==
    [counter |-> r.counter, calls |-> Append(acc, SyncCall(b, options, r))]

\* new Array(size).fill(options).map(this.buildSync): stops at the first throw
RECURSIVE runBuildSyncs(_, _, _, _)
runBuildSyncs(st, b, options, size) ==
    IF Len(st.calls) = size
         \/ (Len(st.calls) > 0 /\ st.calls[Len(st.calls)].pc = "failed")
    THEN st
    ELSE runBuildSyncs(appendSync(st.calls, b, options,
                                  buildSync(st.counter, cfg, engineFactory, options)),
                       b, options, size)

\* the outcome of a batchSync call whose builds were r: the array of the
\* results, or the error of the build that threw
syncBatch(first, size, c, r) ==
    LET last == r.calls[Len(r.calls)]
        failed == last.pc = "failed"
    IN  [kind |-> "sync", first |-> first, size |-> size,
         counterBefore |-> c, counterAfter |-> r.counter,
         status |-> IF failed THEN "rejected" ELSE "resolved",
         err |-> IF failed THEN last.err ELSE NoError,
         results |-> IF failed THEN <<>> ELSE [i \in 1..size |-> r.calls[i].result]]

\* batchSync(size, options)
BatchSync(size, options) ==
    /\ Len(calls) + size <= MaxCalls
    /\ LET r == runBuildSyncs([counter |-> batchStartCounter(counter), calls |-> <<>>],
                              Len(batches) + 1, options, size)
       IN  /\ counter' = r.counter
           /\ calls' = calls \o r.calls
           /\ batches' = Append(batches, syncBatch(Len(calls) + 1, size, counter, r))
    /\ UNCHANGED <<cfg, engineFactory, resets>>

(***************************************************************************)
(* Properties of the TypeFactory (specification Spec).                     *)
(***************************************************************************)
Settled(k) == calls[k].pc \in {"done", "failed"}

\* the value the counter was last set to before call k started
ResetValue(k) == IF calls[k].epoch = 0 THEN 0 ELSE resets[calls[k].epoch]

\* the number of builds started before call k since that reset
StartedBefore(k) == Cardinality({j \in 1..(k - 1) : calls[j].epoch = calls[k].epoch})

\* C1: counter monotonicity.  The builds started on a fresh factory pass
\* 0, 1, 2, ... in the order of the calls, and the builds started after
\* resetCounter(v) pass v, v + 1, ..., to the defaults function and to the
\* post-build function of the same call.
C1_CounterMonotonicity ==
    \A k \in 1..Len(calls) :
        LET expected == ResetValue(k) + StartedBefore(k)
        IN  /\ cfg.fn => calls[k].dArg = expected
            /\ calls[k].fArg # -1 => calls[k].fArg = expected
            /\ (Settled(k) /\ calls[k].factory # NoFactory
                  /\ calls[k].err.name \in {"NONE", "FACTORY_THROWN", "PROMISE_FACTORY"})
               => calls[k].fArg = expected

\* two finished builds on a fresh factory: defaults and factory got 0, then 1
C1_Witness ==
    /\ Len(calls) = 2 /\ resets = <<>>
    /\ calls[1].pc = "done" /\ calls[2].pc = "done"
    /\ calls[1].dArg = 0 /\ calls[1].fArg = 0
    /\ calls[2].dArg = 1 /\ calls[2].fArg = 1

\* a finished build after resetCounter(5): defaults and factory got 5
C1_WitnessReset ==
    /\ Len(calls) = 2 /\ resets = <<5>>
    /\ calls[1].epoch = 0 /\ calls[1].dArg = 0
    /\ calls[2].epoch = 1 /\ calls[2].pc = "done"
    /\ calls[2].dArg = 5 /\ calls[2].fArg = 5

\* C2: unique iteration index.  Between two resetCounter calls no two build
\* invocations hold the same iteration, pending builds included, and the
\* counter is already past the iteration of every build that has started.
C2_UniqueIteration ==
    /\ \A j \in 1..Len(calls), k \in 1..Len(calls) :
          (j # k /\ calls[j].epoch = calls[k].epoch)
          => calls[j].iteration # calls[k].iteration
    /\ \A k \in 1..Len(calls) :
          calls[k].epoch = Len(resets) => calls[k].iteration < counter

\* two asynchronous builds of one batch, both still pending
C2_Witness ==
    /\ Len(calls) = 2
    /\ calls[1].kind = "async" /\ calls[2].kind = "async"
    /\ calls[1].batch # 0 /\ calls[2].batch = calls[1].batch
    /\ calls[1].pc = "awaitFactory" /\ calls[2].pc = "awaitArgs"
    /\ calls[1].iteration # calls[2].iteration

\* two independent asynchronous builds, the second one ahead of the first
C2_WitnessOverlap ==
    /\ Len(calls) = 2
    /\ calls[1].kind = "async" /\ calls[2].kind = "async" /\ calls[1].batch = 0
    /\ calls[1].pc = "awaitArgs" /\ calls[2].pc = "done"

\* the iteration is visible in a built value: under id when the defaults are
\* a function, under the key of the post-build function when there is one
ShowsIteration(k, value, i) ==
    /\ (cfg.fn /\ HasKeyT(value, "id")) => ValT(value, "id") = NumT(i)
    /\ calls[k].factory # NoFactory
       => (HasKeyT(value, calls[k].factory.who)
           /\ ValT(value, calls[k].factory.who) = NumT(i))

\* C3: batch and batchSync do not reset the counter.  The builds of a batch
\* called at counter c receive c, c + 1, ... in order; an asynchronous batch
\* starts all size builds and leaves the counter at c + size; a batch that
\* returns has run size builds, element i of its array is the value built
\* with iteration c + i, and (batchSync) the counter is c + size.
C3_BatchContinues ==
    \A b \in 1..Len(batches) :
        LET B == batches[b]
            mine == {k \in 1..Len(calls) : calls[k].batch = b}
        IN  /\ \A k \in mine : calls[k].iteration = B.counterBefore + (k - B.first)
            /\ mine # {} /\ B.first \in mine
            /\ B.kind = "async"
               => (Cardinality(mine) = B.size /\ B.counterAfter = B.counterBefore + B.size)
            /\ B.status = "resolved"
               => /\ Cardinality(mine) = B.size
                  /\ B.counterAfter = B.counterBefore + B.size
                  /\ Len(B.results) = B.size
                  /\ \A i \in 1..B.size :
                        /\ B.results[i] = calls[B.first + i - 1].result
                        /\ ShowsIteration(B.first + i - 1, B.results[i],
                                          B.counterBefore + i - 1)

\* an asynchronous batch of two called at counter 5 has resolved, and its
\* elements show the iterations 5 and 6
C3_Witness ==
    /\ Len(batches) = 1 /\ batches[1].kind = "async"
    /\ batches[1].status = "resolved" /\ batches[1].counterBefore = 5
    /\ cfg.fn /\ Len(batches[1].results) = 2
    /\ ValT(batches[1].results[1], "id") = NumT(5)
    /\ ValT(batches[1].results[2], "id") = NumT(6)
    /\ counter = 7

\* the same for batchSync
C3_WitnessSync ==
    /\ Len(batches) = 1 /\ batches[1].kind = "sync"
    /\ batches[1].status = "resolved" /\ batches[1].counterBefore = 5
    /\ cfg.fn /\ Len(batches[1].results) = 2
    /\ ValT(batches[1].results[1], "id") = NumT(5)
    /\ ValT(batches[1].results[2], "id") = NumT(6)
    /\ counter = 7

\* the second build of a pending batch is done before the first
C3_WitnessOutOfOrder ==
    /\ Len(batches) = 1 /\ batches[1].status = "pending"
    /\ calls[1].pc = "awaitArgs" /\ calls[2].pc = "done"

\* C4: a failed build still consumes its iteration.  After a build or
\* buildSync call that failed, the next build started before any reset has
\* the next iteration, and while no build and no reset has followed the
\* counter is one more than the iteration of the failed call.
C4_FailureAdvancesCounter ==
    \A k \in 1..Len(calls) :
        calls[k].pc = "failed"
        => /\ (k < Len(calls) /\ calls[k + 1].epoch = calls[k].epoch)
              => calls[k + 1].iteration = calls[k].iteration + 1
           /\ (k = Len(calls) /\ calls[k].epoch = Len(resets))
              => counter = calls[k].iteration + 1

\* a buildSync that failed on its promise defaults, followed by a build that
\* received the next iteration
C4_Witness ==
    /\ Len(calls) = 2 /\ resets = <<>>
    /\ calls[1].kind = "sync" /\ calls[1].pc = "failed"
    /\ calls[1].err.name = "PROMISE_DEFAULTS"
    /\ calls[1].iteration = 0 /\ calls[2].iteration = 1 /\ counter = 2

\* the failures of C4 that occur: each of these errors is the error of a call
C4_WitnessKinds ==
    /\ Len(calls) = 2
    /\ calls[1].err.name \in {"MISSING_BUILD_ARGS", "PRODUCER_THROWN", "FACTORY_THROWN",
                              "PROMISE_OVERRIDES", "PROMISE_FACTORY"}
    /\ calls[2].iteration = calls[1].iteration + 1

\* the value a call resolved: the walk of its merged schema
Resolved(k) ==
    performBuild(calls[k].defaults.tree, calls[k].overrides.tree,
                 calls[k].iteration, calls[k].kind = "sync")

\* C17: post-build function selection.  The function of a build is the
\* factory of the options when the options give one, the engine-level one
\* otherwise.  A build that is done has called it after resolution with the
\* resolved value and the iteration of the call, and returns what the function
\* returned; without a function it returns the resolved value; a build that
\* failed before or in the resolution has not called it.
C17_PostBuildSelection ==
    \A k \in 1..Len(calls) :
        LET own == IF calls[k].options.form = "bundle"
                   THEN calls[k].options.factory ELSE NoFactory
        IN  /\ calls[k].factory = IF own # NoFactory THEN own ELSE engineFactory
            /\ calls[k].pc = "done"
               => IF calls[k].factory = NoFactory
                  THEN calls[k].fArg = -1 /\ calls[k].result = Resolved(k).tree
                  ELSE /\ calls[k].fArg = calls[k].iteration
                       /\ calls[k].result
                             = SetKeyT(Resolved(k).tree, calls[k].factory.who,
                                       NumT(calls[k].iteration))
            /\ (calls[k].kind = "async" /\ calls[k].pc \in {"done", "awaitFactory"}
                  /\ calls[k].factory # NoFactory)
               => calls[k].value = Resolved(k).tree
            /\ (calls[k].pc = "failed"
                  /\ calls[k].err.name \in {"PROMISE_DEFAULTS", "PROMISE_OVERRIDES",
                                            "MISSING_BUILD_ARGS", "PRODUCER_THROWN",
                                            "PROMISE_VALUE", "MERGE_NON_OBJECT"})
               => calls[k].fArg = -1

\* on an engine with a function of its own, a build with the function of the
\* options used that one, and a build without options the one of the engine
C17_Witness ==
    /\ Len(calls) = 2 /\ engineFactory = Factory("engine", "sync")
    /\ calls[1].pc = "done" /\ calls[1].factory = Factory("call", "sync")
    /\ HasKeyT(calls[1].result, "call") /\ ~HasKeyT(calls[1].result, "engine")
    /\ calls[2].pc = "done" /\ calls[2].options = NoOptions
    /\ calls[2].factory = engineFactory
    /\ ValT(calls[2].result, "engine") = NumT(1)

\* a build without any function returned the resolved value
C17_WitnessNone ==
    /\ Len(calls) = 1 /\ engineFactory = NoFactory
    /\ calls[1].pc = "done" /\ calls[1].factory = NoFactory
    /\ calls[1].kind = "async" /\ calls[1].result = calls[1].value

\* C18: a failing item fails the batch.  A batch one of whose builds has
\* failed is rejected with the error of a failed build of its own and holds
\* no array; batchSync stops at the build that threw, so that build is its
\* last and its only failed one; no batch runs more than size builds; a batch
\* is rejected only when one of its builds failed.
C18_BatchFailsWhole ==
    \A b \in 1..Len(batches) :
        LET B == batches[b]
            mine == {k \in 1..Len(calls) : calls[k].batch = b}
            bad == {k \in mine : calls[k].pc = "failed"}
        IN  /\ Cardinality(mine) <= B.size
            /\ bad # {}
               => /\ B.status = "rejected"
                  /\ B.results = <<>>
                  /\ \E k \in bad : B.err = calls[k].err
            /\ B.status = "rejected" => bad # {}
            /\ B.status # "resolved" => B.results = <<>>
            /\ (B.kind = "sync" /\ bad # {})
               => /\ Cardinality(bad) = 1
                  /\ \A k \in bad : k = B.first + Cardinality(mine) - 1 /\ B.err = calls[k].err

\* an asynchronous batch whose second build failed while the first was still
\* pending: it is rejected with the error of the second
C18_Witness ==
    /\ Len(batches) = 1 /\ batches[1].kind = "async" /\ batches[1].status = "rejected"
    /\ calls[1].pc = "awaitArgs" /\ calls[2].pc = "failed"
    /\ batches[1].err = calls[2].err /\ batches[1].results = <<>>

\* a batchSync whose first build threw made no second build
C18_WitnessSync ==
    /\ Len(batches) = 1 /\ batches[1].kind = "sync" /\ batches[1].status = "rejected"
    /\ batches[1].size = 2 /\ Len(calls) = 1 /\ calls[1].pc = "failed"

\* a promise (or a producer of one) occurs in a tree
RECURSIVE HasPromise(_)
HasPromise(tr) ==
    \/ tr.t \in {"promise", "refAsync"}
    \/ \E i \in 1..Len(tr.vals) : HasPromise(tr.vals[i])

\* the inputs of a call with every promise replaced by the value it resolves to
RECURSIVE UnwrapT(_)
UnwrapT(tr) ==
    IF tr.t = "promise" THEN NumT(tr.v)
    ELSE IF tr.t = "refAsync" THEN RefSyncT
    ELSE [tr EXCEPT !.vals = [i \in 1..Len(tr.vals) |-> UnwrapT(tr.vals[i])]]
UnwrapFactory(f) == IF f.mode = "async" THEN [f EXCEPT !.mode = "sync"] ELSE f
UnwrapCfg == [cfg EXCEPT !.async = FALSE, !.schema = UnwrapT(@)]
UnwrapOptions(o) == [o EXCEPT !.ovAsync = FALSE, !.factory = UnwrapFactory(@)]
Unwrapped(k) ==
    buildSync(calls[k].iteration, UnwrapCfg, UnwrapFactory(engineFactory),
              UnwrapOptions(calls[k].options))

PromiseErrors == {"PROMISE_DEFAULTS", "PROMISE_OVERRIDES", "PROMISE_FACTORY", "PROMISE_VALUE"}
OverridesArePromise(k) == calls[k].options.form # "none" /\ calls[k].options.ovAsync

\* C5: promises in sync mode.  buildSync fails with PROMISE_DEFAULTS exactly
\* when the defaults are a promise, with PROMISE_OVERRIDES exactly when the
\* defaults are none and the overrides are a promise, with PROMISE_FACTORY
\* exactly when the post-build function was called and returned a promise; a
\* value it returns holds no promise.  The asynchronous build of the same
\* inputs fails with none of these errors and ends as the synchronous build
\* of the inputs with every promise replaced by its value.
C5_SyncPromiseErrors ==
    \A k \in 1..Len(calls) :
        /\ calls[k].kind = "sync"
           => /\ calls[k].err.name = "PROMISE_DEFAULTS" <=> cfg.async
              /\ calls[k].err.name = "PROMISE_OVERRIDES"
                 <=> (~cfg.async /\ OverridesArePromise(k))
              /\ calls[k].err.name = "PROMISE_FACTORY"
                 <=> (calls[k].fArg # -1 /\ calls[k].factory.mode = "async")
              /\ calls[k].pc = "done" => ~HasPromise(calls[k].result)
        /\ (calls[k].kind = "async" /\ Settled(k))
           => /\ calls[k].err.name \notin PromiseErrors
              /\ calls[k].err = Unwrapped(k).err
              /\ calls[k].pc = "done"
                 => (calls[k].result = Unwrapped(k).result /\ ~HasPromise(calls[k].result))

\* buildSync failed on the promise of the post-build function and the build
\* with the same options succeeded
C5_Witness ==
    /\ Len(calls) = 2
    /\ calls[1].kind = "sync" /\ calls[1].err.name = "PROMISE_FACTORY"
    /\ calls[2].kind = "async" /\ calls[2].options = calls[1].options
    /\ calls[2].pc = "done" /\ calls[2].factory.mode = "async"

\* the same for promise defaults and for promise overrides
C5_WitnessDefaults ==
    /\ Len(calls) = 2 /\ cfg.async
    /\ calls[1].kind = "sync" /\ calls[1].err.name = "PROMISE_DEFAULTS"
    /\ calls[2].kind = "async" /\ calls[2].pc = "done"
C5_WitnessOverrides ==
    /\ Len(calls) = 2
    /\ calls[1].kind = "sync" /\ calls[1].err.name = "PROMISE_OVERRIDES"
    /\ calls[2].kind = "async" /\ calls[2].options = calls[1].options
    /\ calls[2].pc = "done"

\* the key paths at which the required marker occurs in a schema
RECURSIVE RequiredPaths(_)
RequiredPaths(tr) ==
    IF tr.t # "rec" THEN {}
    ELSE UNION { IF tr.vals[i].t = "required"
                 THEN {<<tr.keys[i]>>}
                 ELSE {<<tr.keys[i]>> \o q : q \in RequiredPaths(tr.vals[i])}
                 : i \in 1..Len(tr.vals) }

\* the call has merged its defaults and overrides and validated the schema
Validated(k) ==
    /\ calls[k].pc # "awaitArgs"
    /\ calls[k].err.name \notin {"PROMISE_DEFAULTS", "PROMISE_OVERRIDES"}
MergedOf(k) == mergeT(calls[k].defaults.tree, calls[k].overrides.tree).tree

\* C6: required detection.  A build whose merged schema holds the required
\* marker at one or more key paths, at any depth, fails with the missing
\* arguments error and the error names every such path; a build whose merged
\* schema holds no marker does not fail with that error.
C6_RequiredAllPaths ==
    \A k \in 1..Len(calls) :
        Validated(k)
        => IF RequiredPaths(MergedOf(k)) # {}
           THEN /\ calls[k].err.name = "MISSING_BUILD_ARGS"
                /\ RequiredPaths(MergedOf(k))
                      = {calls[k].err.paths[i] : i \in 1..Len(calls[k].err.paths)}
           ELSE calls[k].err.name # "MISSING_BUILD_ARGS"

\* what holds of the validator: it reports the top-level keys only
C6_TopLevelOnly ==
    \A k \in 1..Len(calls) :
        Validated(k)
        => LET top == {q \in RequiredPaths(MergedOf(k)) : Len(q) = 1}
           IN  IF top # {}
               THEN /\ calls[k].err.name = "MISSING_BUILD_ARGS"
                    /\ top = {calls[k].err.paths[i] : i \in 1..Len(calls[k].err.paths)}
               ELSE calls[k].err.name # "MISSING_BUILD_ARGS"

C29_WitnessRan ==
    /\ Len(batches) = 1 /\ batches[1].kind = "async"
    /\ batches[1].status = "rejected"
    /\ \A k \in batches[1].first..(batches[1].first + 1) : calls[k].pc = "failed"
    /\ counter = batches[1].counterBefore + 2

(***************************************************************************)
(* Cyclic Generators and Deferred References on their own: iterate of      *)
(* src/src/type-factory.ts, sample (src/helpers, as specified) and the Ref *)
(* of src/src/fixture-factory.ts.  One object is constructed and used.     *)
(***************************************************************************)
MaxList == 3
MaxAdvances == 4
MaxInvocations == 3

VARIABLES
    l_kind,      \* the object constructed: "iterate", "sample", "ref" or "none"
    g_list,      \* the backing list of the generator
    g_counter,   \* let counter of iterate
    g_last,      \* the element sample yielded last, undefined before the first
    g_out,       \* the results of next() so far: [value, done]
    r_args,      \* the argument tuple a Ref captured at construction
    r_invoked,   \* the invocations of the producer: [by, args]
    r_returned   \* the values the invocations returned to their callers

leafVars == <<l_kind, g_list, g_counter, g_last, g_out, r_args, r_invoked, r_returned>>

\* list[counter] of JavaScript, ctr being the let counter of iterate:
\* undefined past the end of the list
elementAt(list, ctr) ==
    IF ctr < Len(list) THEN list[ctr + 1] ELSE Undefined

\* variant: the counter never wraps
nextCounter_noWrap(list, ctr) == ctr + 1

\* if (counter === list.length - 1) counter = 0; else counter++
nextCounter(list, ctr) ==
    IF ctr = Len(list) - 1 THEN 0 ELSE ctr + 1

\* variant: any element of the list, the last one included
sampleCandidates_any(list, last) == {list[i] : i \in 1..Len(list)}

\* the elements sample may yield: every element but the one yielded last; a
\* list of one element yields that element again
sampleCandidates(list, last) ==
    IF Len(list) = 1 THEN {list[1]}
    ELSE {list[i] : i \in 1..Len(list)} \ {last}

\* the producer of the Ref: it returns a new value on every invocation, the
\* number of the invocation
handler(invoked) == Num(Len(invoked) + 1)

\* variant: the first result is kept and returned again
invoke_memoised(by, args, invoked, returned) ==
    IF returned # <<>>
    THEN [invoked |-> invoked, value |-> returned[1]]
    ELSE [invoked |-> Append(invoked, [by |-> by, args |-> args]),
          value |-> handler(invoked)]

\* this.handler(...this.args) of callHandler, value.fn(iteration) of the walker
invoke(by, args, invoked, returned) ==
    [invoked |-> Append(invoked, [by |-> by, args |-> args]),
     value |-> handler(invoked)]

ListValues == {Num(1), Num(2)}

RECURSIVE Lists(_)
Lists(n) ==
    IF n = 0 THEN {<<>>}
    ELSE Lists(n - 1) \cup {Append(l, x) : l \in {q \in Lists(n - 1) : Len(q) = n - 1},
                                           x \in ListValues}

RefArgs == {<<>>, <<Num(1)>>, <<Num(1), Num(2)>>}

WalkerIterations == {0, 1}

\* iterate(list), sample(list) or new Ref({args, handler})
InitLeaf ==
    /\ l_kind \in {"iterate", "sample", "ref"}
    /\ g_list \in (IF l_kind = "ref" THEN {<<>>} ELSE Lists(MaxList))
    /\ g_counter = 0
    /\ g_last = Undefined
    /\ g_out = <<>>
    /\ r_args \in (IF l_kind = "ref" THEN RefArgs ELSE {<<>>})
    /\ r_invoked = <<>>
    /\ r_returned = <<>>

\* generator.next() on iterate(list): the body of the while (true) loop
IterateNext ==
    /\ l_kind = "iterate"
    /\ Len(g_out) < MaxAdvances
    /\ g_out' = Append(g_out, [value |-> elementAt(g_list, g_counter), done |-> FALSE])
    /\ g_counter' = nextCounter(g_list, g_counter)
    /\ UNCHANGED <<l_kind, g_list, g_last, r_args, r_invoked, r_returned>>

\* generator.next() on sample(list)
SampleNext ==
    /\ l_kind = "sample"
    /\ Len(g_out) < MaxAdvances
    /\ \E x \in sampleCandidates(g_list, g_last) :
          /\ g_out' = Append(g_out, [value |-> x, done |-> FALSE])
          /\ g_last' = x
    /\ UNCHANGED <<l_kind, g_list, g_counter, r_args, r_invoked, r_returned>>

\* ref.callHandler()
CallHandler ==
    /\ l_kind = "ref"
    /\ Len(r_returned) < MaxInvocations
    /\ LET r == invoke("callHandler", r_args, r_invoked, r_returned)
       IN  /\ r_invoked' = r.invoked
           /\ r_returned' = Append(r_returned, r.value)
    /\ UNCHANGED <<l_kind, g_list, g_counter, g_last, g_out, r_args>>

\* the walker resolves a key that holds the reference, in the build with the
\* given iteration: output[key] = await value.fn(iteration)
ResolveRef(iteration) ==
    /\ l_kind = "ref"
    /\ Len(r_returned) < MaxInvocations
    /\ LET r == invoke("walker", <<Num(iteration)>>, r_invoked, r_returned)
       IN  /\ r_invoked' = r.invoked
           /\ r_returned' = Append(r_returned, r.value)
    /\ UNCHANGED <<l_kind, g_list, g_counter, g_last, g_out, r_args>>

(***************************************************************************)
(* Properties of the generators and of Ref (specification SpecLeaves).     *)
(***************************************************************************)
\* C13: iterate wrap-around.  For a backing list of n >= 1 elements the k-th
\* advance, k = 0, 1, 2, ..., yields list[k mod n] and is never done; with
\* n = 1 every advance yields the single element.
C13_IterateWraps ==
    (l_kind = "iterate" /\ Len(g_list) >= 1)
    => \A k \in 0..(Len(g_out) - 1) :
          /\ g_out[k + 1].value = g_list[(k % Len(g_list)) + 1]
          /\ ~g_out[k + 1].done

\* iterate over three elements advanced four times: the fourth is the first
C13_Witness ==
    /\ l_kind = "iterate" /\ Len(g_list) = 3 /\ Len(g_out) = 4
    /\ g_out[4].value = g_list[1] /\ g_out[3].value = g_list[3]

\* iterate over one element advanced more than once
C13_WitnessOne ==
    /\ l_kind = "iterate" /\ Len(g_list) = 1 /\ Len(g_out) >= 2
    /\ g_out[2].value = g_list[1]

\* C14: iterate over an empty sequence never yields.  The generator of an
\* empty backing list has produced no result of next().
C14_EmptyIterateFails ==
    (l_kind = "iterate" /\ g_list = <<>>) => g_out = <<>>

\* what holds of iterate([]): every advance yields undefined and is not done
C14_EmptyYieldsUndefined ==
    (l_kind = "iterate" /\ g_list = <<>>)
    => \A k \in 1..Len(g_out) : g_out[k] = [value |-> Undefined, done |-> FALSE]

\* C15: sample never repeats immediately.  Every value sample yields is an
\* element of the backing list; with two or more distinct elements in the
\* list no two consecutive advances yield the same element; with a list of
\* one element every advance yields that element.
C15_SampleNoRepeat ==
    l_kind = "sample"
    => /\ \A k \in 1..Len(g_out) :
             \E i \in 1..Len(g_list) : g_out[k].value = g_list[i]
       /\ Cardinality({g_list[i] : i \in 1..Len(g_list)}) >= 2
          => \A k \in 1..(Len(g_out) - 1) : g_out[k].value # g_out[k + 1].value
       /\ Len(g_list) = 1
          => \A k \in 1..Len(g_out) : g_out[k].value = g_list[1]

\* sample over a list with a repeated element, advanced to the bound
C15_Witness ==
    /\ l_kind = "sample" /\ Len(g_list) = 3
    /\ Cardinality({g_list[i] : i \in 1..Len(g_list)}) = 2
    /\ Len(g_out) = MaxAdvances
    /\ g_out[1].value = g_out[3].value

\* sample over one element advanced twice
C15_WitnessOne ==
    /\ l_kind = "sample" /\ Len(g_list) = 1 /\ Len(g_out) = 2

\* C16: a Deferred Reference is never memoised.  Every callHandler() and
\* every resolution by the walker invokes the producer once more: n calls
\* are n invocations, those of callHandler with the argument tuple captured
\* at construction, and each call returns the value its own invocation
\* computed.
C16_RefNotMemoised ==
    l_kind = "ref"
    => /\ Len(r_invoked) = Len(r_returned)
       /\ \A i \in 1..Len(r_invoked) :
             /\ r_invoked[i].by = "callHandler" => r_invoked[i].args = r_args
             /\ r_returned[i] = Num(i)

\* callHandler called three times on a Ref that captured two arguments
C16_Witness ==
    /\ l_kind = "ref" /\ r_args = <<Num(1), Num(2)>>
    /\ Len(r_invoked) = 3
    /\ \A i \in 1..3 : r_invoked[i] = [by |-> "callHandler", args |-> r_args]
    /\ r_returned = <<Num(1), Num(2), Num(3)>>

\* the reference of a schema resolved in two builds: two invocations
C16_WitnessWalker ==
    /\ l_kind = "ref" /\ Len(r_invoked) = 2
    /\ r_invoked[1] = [by |-> "walker", args |-> <<Num(0)>>]
    /\ r_invoked[2] = [by |-> "walker", args |-> <<Num(1)>>]
    /\ r_returned = <<Num(1), Num(2)>>


(***************************************************************************)
(* The walk of one schema object, step by step: parse_schema of            *)
(* src/src/type-factory.ts, with the synchronous mode of the walker as     *)
(* specified.  The schema holds one shared Cyclic Generator,               *)
(* iterate([1, 2, 3]), and one nested engine,                              *)
(* new TypeFactory({type: 0}, (v, i) => ({...v, n: i})); it is resolved    *)
(* again and again, one resolution at a time.                              *)
(***************************************************************************)
MaxWalks == 4

VARIABLES
    w_schema,     \* the schema object that is resolved
    w_sync,       \* the mode of the walker
    w_pc,         \* "idle" or "walking"
    w_iteration,  \* the iteration argument of the resolution under way
    w_stack,      \* the activations of parse_schema: [schema, j, output, key]
    w_pending,    \* the awaited values: [depth, key, value, path]
    w_log,        \* the events of the resolution under way: [ev, path]
    w_env,        \* cursor and yields of the generator, counter of the nested
                  \* engine, arguments of the producer invocations
    w_results     \* the finished resolutions: [iteration, err, tree, log]

walkVars == <<w_schema, w_sync, w_pc, w_iteration, w_stack, w_pending, w_log,
              w_env, w_results>>

GenT == Leaf("gen", 0)
EngineT == Leaf("engine", 0)
DateT(n) == Leaf("date", n)

WalkGenList == <<NumT(1), NumT(2), NumT(3)>>

\* variant: arrays are walked like mappings
isWalkedObject_arrays(raw) == raw.t \in {"rec", "date", "required", "derived", "arr"}

\* typeof value === 'object' && !Array.isArray(value) && value !== null, for
\* a value that is no engine, no Ref and no generator
isWalkedObject(raw) == raw.t \in {"rec", "date", "required", "derived"}

\* the values the walker calls, advances or awaits
isProducer(raw) ==
    raw.t \in {"engine", "refSync", "refAsync", "refThrow", "gen", "promise"}

\* variant: the generator is indexed by the iteration
generatorValue_indexed(list, cursor, iteration) ==
    elementAt(list, iteration % Len(list))

\* value.next().value
generatorValue(list, cursor, iteration) == elementAt(list, cursor)

\* variant: the nested build is given the iteration of the parent
nestedIteration_parent(nestedCounter, iteration) == iteration

\* const iteration = this.counter in the build of the nested engine
nestedIteration(nestedCounter, iteration) == nestedCounter

\* value.build() of the nested engine, for its iteration
nestedBuild(iteration) == RecT(<<"type", "n">>, <<NumT(0), NumT(iteration)>>)

\* the value of a key that holds an engine, a Ref, a generator or a promise,
\* with the state the call leaves behind
resolveLeaf(raw, key, iteration, isSync, env) ==
    IF raw.t = "engine"
    THEN [err |-> NoError,
          value |-> nestedBuild(nestedIteration(env.nested, iteration)),
          env |-> [env EXCEPT !.nested = @ + 1]]
    ELSE IF raw.t = "refSync"
    THEN [err |-> NoError, value |-> NumT(iteration),
          env |-> [env EXCEPT !.refCalls = Append(@, iteration)]]
    ELSE IF raw.t = "refAsync"
    THEN [err |-> throwIfPromise(isSync, key), value |-> NumT(iteration),
          env |-> [env EXCEPT !.refCalls = Append(@, iteration)]]
    ELSE IF raw.t = "refThrow"
    THEN [err |-> Err("PRODUCER_THROWN"), value |-> UndefT,
          env |-> [env EXCEPT !.refCalls = Append(@, iteration)]]
    ELSE IF raw.t = "gen"
    THEN [err |-> NoError,
          value |-> generatorValue(WalkGenList, env.cursor, iteration),
          env |-> [env EXCEPT
                     !.cursor = nextCounter(WalkGenList, @),
                     !.genOut = Append(@, generatorValue(WalkGenList, env.cursor,
                                                         iteration))]]
    ELSE [err |-> throwIfPromise(isSync, key), value |-> NumT(raw.v), env |-> env]

\* variant: the next key is started while a value is still awaited
mayStart_fanOut(pending) == TRUE

\* every value is awaited before the loop goes on
mayStart(pending) == pending = <<>>

Frame(schema, key) == [schema |-> schema, j |-> 1, output |-> RecT(<<>>, <<>>), key |-> key]

\* the key path of the activation on top of the stack
FramePath(stack) == [i \in 1..(Len(stack) - 1) |-> stack[i + 1].key]

Event(ev, path) == [ev |-> ev, path |-> path]

NoEnv == [cursor |-> 0, genOut |-> <<>>, nested |-> 0, refCalls |-> <<>>]

WalkSchemas ==
    { RecT(<<"a", "b", "e">>,
           <<NumT(1), RecT(<<"c", "d">>, <<NullT, ArrT(<<NumT(1), NumT(2)>>)>>), UndefT>>),
      RecT(<<"a", "b">>, <<DateT(0), NumT(1)>>),
      RecT(<<"a", "g">>, <<NumT(0), GenT>>),
      RecT(<<"g", "b", "r">>, <<GenT, RecT(<<"h">>, <<GenT>>), RefSyncT>>),
      RecT(<<"a", "b", "d">>,
           <<RefAsyncT, RecT(<<"c", "p">>, <<RefSyncT, PromiseT(4)>>), RefSyncT>>),
      RecT(<<"n", "a", "m">>, <<EngineT, RefSyncT, EngineT>>),
      RecT(<<"a", "r", "g">>, <<NumT(0), RefThrowT, GenT>>),
      RecT(<<"l", "r">>,
           <<ArrT(<<RefSyncT, GenT, EngineT, RecT(<<"x">>, <<RefSyncT>>)>>), RefSyncT>>) }

WalkIterations == {0, 1, 2, 4}

InitWalk ==
    /\ w_schema \in WalkSchemas
    /\ w_sync \in BOOLEAN
    /\ w_pc = "idle"
    /\ w_iteration = 0
    /\ w_stack = <<>>
    /\ w_pending = <<>>
    /\ w_log = <<>>
    /\ w_env = NoEnv
    /\ w_results = <<>>

\* the resolution ends: the promise of parse_schema settles
finishWalk(err, tree, log) ==
    /\ w_pc' = "idle"
    /\ w_stack' = <<>>
    /\ w_pending' = <<>>
    /\ w_log' = <<>>
    /\ w_results' = Append(w_results,
                           [iteration |-> w_iteration, err |-> err, tree |-> tree,
                            log |-> log])

\* parse_schema(schema, iteration) is called on the schema object
WalkStart(iteration) ==
    /\ w_pc = "idle"
    /\ Len(w_results) < MaxWalks
    /\ w_pc' = "walking"
    /\ w_iteration' = iteration
    /\ w_stack' = <<Frame(w_schema, "")>>
    /\ UNCHANGED <<w_schema, w_sync, w_pending, w_log, w_env, w_results>>

\* output[key] = await TypeFactory.parse_schema(value, iteration): the call
walkObject(raw, key) ==
    /\ w_stack' = Append(w_stack, Frame(raw, key))
    /\ UNCHANGED <<w_pc, w_pending, w_log, w_env, w_results>>

\* output[key] = value
walkLiteral(raw, key, path) ==
    /\ w_stack' = [w_stack EXCEPT ![Len(w_stack)].output = SetKeyT(@, key, raw),
                                  ![Len(w_stack)].j = @ + 1]
    /\ w_log' = Append(w_log, Event("settle", path))
    /\ UNCHANGED <<w_pc, w_pending, w_env, w_results>>

\* output[key] = await ..., r being what the call of the producer gave
walkProducer(r, key, path) ==
    /\ w_env' = r.env
    /\ IF r.err # NoError
       THEN finishWalk(r.err, UndefT, Append(w_log, Event("start", path)))
       ELSE IF w_sync
       THEN /\ w_stack' = [w_stack EXCEPT
                             ![Len(w_stack)].output = SetKeyT(@, key, r.value),
                             ![Len(w_stack)].j = @ + 1]
            /\ w_log' = w_log \o <<Event("start", path), Event("settle", path)>>
            /\ UNCHANGED <<w_pc, w_pending, w_results>>
       ELSE /\ w_stack' = [w_stack EXCEPT ![Len(w_stack)].j = @ + 1]
            /\ w_pending' = Append(w_pending,
                                   [depth |-> Len(w_stack), key |-> key,
                                    value |-> r.value, path |-> path])
            /\ w_log' = Append(w_log, Event("start", path))
            /\ UNCHANGED <<w_pc, w_results>>

\* one entry of Object.entries(schema)
walkEntry(raw, key, path) ==
    IF isProducer(raw)
    THEN walkProducer(resolveLeaf(raw, key, w_iteration, w_sync, w_env), key, path)
    ELSE IF isWalkedObject(raw)
    THEN walkObject(raw, key)
    ELSE walkLiteral(raw, key, path)

\* the loop of parse_schema takes its next entry
WalkKey ==
    /\ w_pc = "walking"
    /\ mayStart(w_pending)
    /\ w_stack[Len(w_stack)].j <= Len(w_stack[Len(w_stack)].schema.keys)
    /\ walkEntry(w_stack[Len(w_stack)].schema.vals[w_stack[Len(w_stack)].j],
                 w_stack[Len(w_stack)].schema.keys[w_stack[Len(w_stack)].j],
                 Append(FramePath(w_stack),
                        w_stack[Len(w_stack)].schema.keys[w_stack[Len(w_stack)].j]))
    /\ UNCHANGED <<w_schema, w_sync, w_iteration>>

\* an awaited value arrives and is stored under its key
WalkSettle(i) ==
    /\ w_pc = "walking"
    /\ i \in 1..Len(w_pending)
    /\ w_stack' = [w_stack EXCEPT
                     ![w_pending[i].depth].output
                        = SetKeyT(@, w_pending[i].key, w_pending[i].value)]
    /\ w_pending' = [k \in 1..(Len(w_pending) - 1) |->
                        IF k < i THEN w_pending[k] ELSE w_pending[k + 1]]
    /\ w_log' = Append(w_log, Event("settle", w_pending[i].path))
    /\ UNCHANGED <<w_schema, w_sync, w_pc, w_iteration, w_env, w_results>>

\* return output of a nested call: the caller stores it under its key
walkReturnNested(top) ==
    /\ w_stack' = [SubSeq(w_stack, 1, Len(w_stack) - 1) EXCEPT
                     ![Len(w_stack) - 1].output = SetKeyT(@, top.key, top.output),
                     ![Len(w_stack) - 1].j = @ + 1]
    /\ w_log' = Append(w_log, Event("settle", FramePath(w_stack)))
    /\ UNCHANGED <<w_pc, w_pending, w_results>>

\* return output: the loop of an activation is over
WalkReturn ==
    /\ w_pc = "walking"
    /\ w_stack[Len(w_stack)].j > Len(w_stack[Len(w_stack)].schema.keys)
    /\ \A i \in 1..Len(w_pending) : w_pending[i].depth # Len(w_stack)
    /\ IF Len(w_stack) > 1
       THEN walkReturnNested(w_stack[Len(w_stack)])
       ELSE finishWalk(NoError, w_stack[1].output, w_log)
    /\ UNCHANGED <<w_schema, w_sync, w_iteration, w_env>>

(***************************************************************************)
(* Properties of the walk (specification SpecWalk).                        *)
(***************************************************************************)
IsPrefix(s, t) == Len(s) <= Len(t) /\ SubSeq(t, 1, Len(s)) = s

\* the value a tree holds at a key path
RECURSIVE ValAtPath(_, _)
ValAtPath(tr, path) ==
    IF path = <<>> THEN tr
    ELSE IF tr.t # "rec" \/ ~HasKeyT(tr, Head(path)) THEN UndefT
    ELSE ValAtPath(ValT(tr, Head(path)), Tail(path))

\* the calls of producers of one kind that a log records, in their order
StartsOf(log, kind) ==
    SelectSeq(log, LAMBDA e : e.ev = "start" /\ ValAtPath(w_schema, e.path).t = kind)

\* the number of such calls in the first k finished resolutions
RECURSIVE CountStarts(_, _)
CountStarts(k, kind) ==
    IF k = 0 THEN 0
    ELSE Len(StartsOf(w_results[k].log, kind)) + CountStarts(k - 1, kind)

\* a schema of literals only: numbers, null, undefined, arrays, dates and
\* mappings of those
RECURSIVE LiteralOnly(_)
LiteralOnly(tr) ==
    /\ tr.t \in {"num", "null", "undef", "arr", "date", "rec"}
    /\ \A i \in 1..Len(tr.vals) : LiteralOnly(tr.vals[i])

RECURSIVE HasDate(_)
HasDate(tr) == tr.t = "date" \/ \E i \in 1..Len(tr.vals) : HasDate(tr.vals[i])

\* C11: literal pass-through.  A schema whose leaves are all literals
\* (numbers, null, undefined, arrays, dates), nested to any depth, resolves
\* in both modes without an error to a structure equal to the schema.
C11_LiteralPassThrough ==
    LiteralOnly(w_schema)
    => \A k \in 1..Len(w_results) :
          w_results[k].err = NoError /\ w_results[k].tree = w_schema

\* what holds: the literals other than dates pass through, and a date
\* resolves to a mapping without keys
C11_PassThroughButDates ==
    /\ (LiteralOnly(w_schema) /\ ~HasDate(w_schema))
       => \A k \in 1..Len(w_results) :
             w_results[k].err = NoError /\ w_results[k].tree = w_schema
    /\ \A k \in 1..Len(w_results) :
          (w_results[k].err = NoError /\ ValAtPath(w_schema, <<"a">>).t = "date")
          => ValAtPath(w_results[k].tree, <<"a">>) = RecT(<<>>, <<>>)

\* C12: a generator is advanced once per resolution of a key that holds it,
\* and never otherwise; the value taken is the element at the number of
\* earlier advances modulo the length of the list, whatever the iteration of
\* the build.
C12_GeneratorAdvance ==
    /\ Len(w_env.genOut)
          = CountStarts(Len(w_results), "gen") + Len(StartsOf(w_log, "gen"))
    /\ w_env.cursor = Len(w_env.genOut) % Len(WalkGenList)
    /\ \A i \in 1..Len(w_env.genOut) :
          w_env.genOut[i] = WalkGenList[((i - 1) % Len(WalkGenList)) + 1]
    /\ \A k \in 1..Len(w_results) :
          w_results[k].err = NoError
          => \A i \in 1..Len(StartsOf(w_results[k].log, "gen")) :
                ValAtPath(w_results[k].tree, StartsOf(w_results[k].log, "gen")[i].path)
                   = WalkGenList[((CountStarts(k - 1, "gen") + i - 1)
                                     % Len(WalkGenList)) + 1]

\* builds with iterations 0, 1, 2, 4 over iterate([1, 2, 3]) take 1, 2, 3, 1
C12_Witness ==
    /\ w_schema = RecT(<<"a", "g">>, <<NumT(0), GenT>>)
    /\ Len(w_results) = 4
    /\ \A k \in 1..4 : w_results[k].err = NoError
    /\ <<w_results[1].iteration, w_results[2].iteration,
         w_results[3].iteration, w_results[4].iteration>> = <<0, 1, 2, 4>>
    /\ <<ValT(w_results[1].tree, "g"), ValT(w_results[2].tree, "g"),
         ValT(w_results[3].tree, "g"), ValT(w_results[4].tree, "g")>>
          = <<NumT(1), NumT(2), NumT(3), NumT(1)>>

\* a schema with the generator under two keys advances it twice in one build
C12_WitnessTwice ==
    /\ Len(w_results) = 1 /\ w_results[1].err = NoError
    /\ ValAtPath(w_results[1].tree, <<"g">>) = NumT(1)
    /\ ValAtPath(w_results[1].tree, <<"b", "h">>) = NumT(2)

\* C19: a nested engine is built with no overrides.  Every resolution of a
\* key that holds an engine takes one iteration from the counter of that
\* engine, the value stored is the result of the nested build for that
\* iteration and not for the iteration of the parent, and the counter of
\* the parent is not written.
C19_NestedEngineBuilt ==
    /\ w_env.nested
          = CountStarts(Len(w_results), "engine") + Len(StartsOf(w_log, "engine"))
    /\ \A k \in 1..Len(w_results) :
          w_results[k].err = NoError
          => \A i \in 1..Len(StartsOf(w_results[k].log, "engine")) :
                ValAtPath(w_results[k].tree,
                          StartsOf(w_results[k].log, "engine")[i].path)
                   = nestedBuild(CountStarts(k - 1, "engine") + i - 1)
    /\ counter = 0

\* two builds of a parent with iteration 4: the nested engine, held by two
\* keys, is at its iterations 0 and 1, then 2 and 3
C19_Witness ==
    /\ Len(w_results) = 2
    /\ w_results[1].iteration = 4 /\ w_results[2].iteration = 4
    /\ ValAtPath(w_results[1].tree, <<"n", "n">>) = NumT(0)
    /\ ValAtPath(w_results[1].tree, <<"m", "n">>) = NumT(1)
    /\ ValAtPath(w_results[2].tree, <<"n", "n">>) = NumT(2)
    /\ ValAtPath(w_results[2].tree, <<"m", "n">>) = NumT(3)
    /\ ValAtPath(w_results[2].tree, <<"a">>) = NumT(4)
    /\ w_env.nested = 4

\* C25: the walker treats an array as a literal.  A Deferred Reference, a
\* Cyclic Generator, a nested engine or a nested schema that is an element
\* of an array is copied unresolved: the array of the output is the array
\* of the schema, the producers are invoked, the generator advanced and the
\* nested engine built only for the values held directly under a key.
C25_ArrayIsLiteral ==
    /\ \A k \in 1..Len(w_results) :
          (w_results[k].err = NoError /\ ValAtPath(w_schema, <<"l">>).t = "arr")
          => ValAtPath(w_results[k].tree, <<"l">>) = ValAtPath(w_schema, <<"l">>)
    /\ Len(w_env.refCalls)
          = CountStarts(Len(w_results), "refSync") + Len(StartsOf(w_log, "refSync"))
            + CountStarts(Len(w_results), "refAsync") + Len(StartsOf(w_log, "refAsync"))
            + CountStarts(Len(w_results), "refThrow") + Len(StartsOf(w_log, "refThrow"))
    /\ ValAtPath(w_schema, <<"l">>).t = "arr"
       => /\ w_env.genOut = <<>> /\ w_env.cursor = 0 /\ w_env.nested = 0
          /\ Len(w_env.refCalls) = Len(w_results) + Len(StartsOf(w_log, "refSync"))

\* a schema whose array holds a Ref, a generator, an engine and a nested
\* schema, resolved twice: only the Ref under the key r was invoked
C25_Witness ==
    /\ Len(w_results) = 2 /\ w_results[2].err = NoError
    /\ ValAtPath(w_schema, <<"l">>) = ArrT(<<RefSyncT, GenT, EngineT, RecT(<<"x">>, <<RefSyncT>>)>>)
    /\ ValAtPath(w_results[2].tree, <<"l">>) = ValAtPath(w_schema, <<"l">>)
    /\ Len(w_env.refCalls) = 2 /\ w_env.genOut = <<>> /\ w_env.nested = 0

\* the events of a walk that resolves its keys one at a time, in insertion
\* order and depth first
RECURSIVE ExpectedLog(_, _, _)
ExpectedLog(schema, prefix, j) ==
    IF j > Len(schema.keys) THEN <<>>
    ELSE (IF schema.vals[j].t \in {"rec", "date", "required", "derived"}
          THEN Append(ExpectedLog(schema.vals[j], Append(prefix, schema.keys[j]), 1),
                      Event("settle", Append(prefix, schema.keys[j])))
          ELSE IF schema.vals[j].t \in {"engine", "refSync", "refAsync", "refThrow",
                                       "gen", "promise"}
          THEN <<Event("start", Append(prefix, schema.keys[j])),
                 Event("settle", Append(prefix, schema.keys[j]))>>
          ELSE <<Event("settle", Append(prefix, schema.keys[j]))>>)
         \o ExpectedLog(schema, prefix, j + 1)

\* C20: the asynchronous walk is strictly sequential.  Within one
\* asynchronous build the producer of a key is called only when every key
\* before it, in insertion order and depth first, is resolved: at most one
\* value is awaited at a time and the calls and arrivals follow the
\* sequential order.
C20_SequentialWalk ==
    ~w_sync
    => /\ Len(w_pending) <= 1
       /\ IsPrefix(w_log, ExpectedLog(w_schema, <<>>, 1))
       /\ \A k \in 1..Len(w_results) :
             /\ IsPrefix(w_results[k].log, ExpectedLog(w_schema, <<>>, 1))
             /\ w_results[k].err = NoError
                => w_results[k].log = ExpectedLog(w_schema, <<>>, 1)

\* the producer of a nested key is awaited after the asynchronous producer
\* before it has settled
C20_Witness ==
    /\ ~w_sync
    /\ Len(w_pending) = 1 /\ w_pending[1].path = <<"b", "c">>
    /\ w_log = <<Event("start", <<"a">>), Event("settle", <<"a">>),
                 Event("start", <<"b", "c">>)>>

\* an asynchronous walk over asynchronous producers that ran to its end
C20_WitnessDone ==
    /\ ~w_sync
    /\ Len(w_results) = 1 /\ w_results[1].err = NoError
    /\ ValAtPath(w_schema, <<"b", "p">>).t = "promise"
    /\ Len(w_results[1].log) = 9

(***************************************************************************)
(* The TypeFactory of src/src/type-factory.ts: an asynchronous build whose *)
(* defaults getter reads this.counter, a shallow Object.assign, a shallow  *)
(* validate_schema, and a batch that resets the counter.  Its state is the *)
(* state of an engine (counter, cfg, engineFactory, calls, batches) and    *)
(* w_env, the generator, nested engine and producers its schema holds.     *)
(***************************************************************************)
MaxBuilds == 4

\* Object.assign({}, defaults, overrides): the keys of overrides, from the
\* j-th on, replace those of the defaults
RECURSIVE assign(_, _, _)
assign(d, o, j) ==
    IF o.t # "rec" \/ j > Len(o.keys) THEN d
    ELSE assign(SetKeyT(d, o.keys[j], o.vals[j]), o, j + 1)

RECURSIVE resolveSchema(_, _, _, _, _)
RECURSIVE resolveNext(_, _, _, _, _, _, _)

\* parse_schema run to its end from entry j on, with the state the calls of
\* its producers leave behind
resolveSchema(schema, iteration, j, output, env) ==
    IF j > Len(schema.keys)
    THEN [err |-> NoError, value |-> output, env |-> env]
    ELSE IF isProducer(schema.vals[j])
    THEN resolveNext(schema, iteration, j, output,
                     resolveLeaf(schema.vals[j], schema.keys[j], iteration, FALSE, env).err,
                     resolveLeaf(schema.vals[j], schema.keys[j], iteration, FALSE, env).value,
                     resolveLeaf(schema.vals[j], schema.keys[j], iteration, FALSE, env).env)
    ELSE IF isWalkedObject(schema.vals[j])
    THEN resolveNext(schema, iteration, j, output,
                     resolveSchema(schema.vals[j], iteration, 1, RecT(<<>>, <<>>), env).err,
                     resolveSchema(schema.vals[j], iteration, 1, RecT(<<>>, <<>>), env).value,
                     resolveSchema(schema.vals[j], iteration, 1, RecT(<<>>, <<>>), env).env)
    ELSE resolveNext(schema, iteration, j, output, NoError, schema.vals[j], env)

\* output[key] = the awaited value, or the rejection of parse_schema
resolveNext(schema, iteration, j, output, err, value, env) ==
    IF err # NoError
    THEN [err |-> err, value |-> UndefT, env |-> env]
    ELSE resolveSchema(schema, iteration, j + 1,
                       SetKeyT(output, schema.keys[j], value), env)

\* variant: the schema is walked before it is validated
validateAndParse_walkFirst(schema, iteration, env) ==
    IF validate_schema(schema) # NoError
    THEN [err |-> validate_schema(schema), value |-> UndefT,
          env |-> resolveSchema(schema, iteration, 1, RecT(<<>>, <<>>), env).env]
    ELSE resolveSchema(schema, iteration, 1, RecT(<<>>, <<>>), env)

\* this.validate_schema(mergedSchema);
\* const value = await TypeFactory.parse_schema(mergedSchema, iteration)
validateAndParse(schema, iteration, env) ==
    IF validate_schema(schema) # NoError
    THEN [err |-> validate_schema(schema), value |-> UndefT, env |-> env]
    ELSE resolveSchema(schema, iteration, 1, RecT(<<>>, <<>>), env)

\* typeof options?.overrides === 'function' ? options.overrides(iteration)
\*                                          : options?.overrides
resolveOverrides(options, iteration) ==
    IF options.ovFn THEN SetKeyT(options.ov, "a", NumT(iteration)) ELSE options.ov

\* build up to its first await: the snapshot, the increment and the getter
\* defaults, which calls this._defaults(this.counter)
startBuildTF(c, b, options) ==
    [counter |-> c + 1,
     call |-> [batch |-> b, options |-> options, iteration |-> c,
               dArg |-> IF cfg.fn THEN c + 1 ELSE -1,
               defaults |-> resolveDefaults(cfg, c + 1).tree,
               oArg |-> -1, fArg |-> -1,
               pc |-> "awaitDefaults", err |-> NoError, result |-> UndefT,
               envBefore |-> NoEnv, envAfter |-> NoEnv]]

\* return Promise.resolve(fn ? fn(value, iteration) : value), f being what
\* the call of fn gave
returnBuildTF(c, env, fn, f) ==
    [call |-> IF f.err # NoError
              THEN [c EXCEPT !.pc = "failed", !.err = f.err, !.envAfter = env,
                             !.fArg = c.iteration]
              ELSE [c EXCEPT !.pc = "done", !.result = f.result.tree, !.envAfter = env,
                             !.fArg = IF fn = NoFactory THEN -1 ELSE c.iteration],
     env |-> env]

\* build from the result of validate_schema and parse_schema on
parsedBuildTF(c, r, fn) ==
    IF r.err # NoError
    THEN [call |-> [c EXCEPT !.pc = "failed", !.err = r.err, !.envAfter = r.env],
          env |-> r.env]
    ELSE returnBuildTF(c, r.env, fn, callFactory(fn, r.value, c.iteration))

\* build after await this.defaults: the overrides, Object.assign, the
\* validation, the walk and the post-build function options?.factory ??
\* this.factory
resumeBuildTF(c, env) ==
    parsedBuildTF([c EXCEPT !.oArg = IF c.options.ovFn THEN c.iteration ELSE -1,
                            !.envBefore = env],
                  validateAndParse(assign(c.defaults,
                                          resolveOverrides(c.options, c.iteration), 1),
                                   c.iteration, env),
                  selectFactory(c.options.factory, engineFactory))

\* variant: the batch goes on from the counter it finds
batchResetCounter_kept(c) == c

\* this.resetCounter() of batch
batchResetCounter(c) == 0

RequiredSchema ==
    RecT(<<"a", "r", "g", "n">>, <<RequiredT, RefSyncT, GenT, EngineT>>)

EnginesTF ==
    { [fn |-> TRUE, async |-> FALSE, factory |-> Factory("engine", "sync"),
       schema |-> RequiredSchema],
      [fn |-> TRUE, async |-> FALSE, factory |-> NoFactory,
       schema |-> RecT(<<"a", "r">>, <<NumT(0), RefSyncT>>)],
      [fn |-> FALSE, async |-> FALSE, factory |-> Factory("engine", "sync"),
       schema |-> RecT(<<"a", "g">>, <<NumT(0), GenT>>)] }

OptionSetTF ==
    { NoOptions,
      Options("bundle", RecT(<<"a">>, <<NumT(7)>>), TRUE, FALSE, Factory("call", "sync")) }

InitTF ==
    /\ counter = 0
    /\ \E e \in EnginesTF :
          /\ cfg = [fn |-> e.fn, async |-> e.async, schema |-> e.schema]
          /\ engineFactory = e.factory
    /\ calls = <<>>
    /\ batches = <<>>
    /\ resets = <<>>
    /\ w_env = NoEnv

\* build(options): the call itself
BuildTF(options) ==
    /\ Len(calls) < MaxBuilds
    /\ counter' = startBuildTF(counter, 0, options).counter
    /\ calls' = Append(calls, startBuildTF(counter, 0, options).call)
    /\ UNCHANGED <<cfg, engineFactory, batches, resets, w_env>>

\* a build resumes after its first await and runs to its end
ResumeTF(k) ==
    /\ k \in 1..Len(calls)
    /\ calls[k].pc = "awaitDefaults"
    /\ calls' = [calls EXCEPT ![k] = resumeBuildTF(calls[k], w_env).call]
    /\ w_env' = resumeBuildTF(calls[k], w_env).env
    /\ batches' = settle([calls EXCEPT ![k] = resumeBuildTF(calls[k], w_env).call],
                         batches)
    /\ UNCHANGED <<counter, cfg, engineFactory, resets>>

\* new Array(size).fill(null).map(() => this.build(options))
RECURSIVE startBuildsTF(_, _, _, _, _)
startBuildsTF(c, b, options, size, acc) ==
    IF Len(acc) = size
    THEN [counter |-> c, calls |-> acc]
    ELSE startBuildsTF(startBuildTF(c, b, options).counter, b, options, size,
                       Append(acc, startBuildTF(c, b, options).call))

\* batch(size, options)
BatchTF(size, options) ==
    /\ Len(calls) + size <= MaxBuilds
    /\ counter' = startBuildsTF(batchResetCounter(counter), Len(batches) + 1,
                                options, size, <<>>).counter
    /\ calls' = calls \o startBuildsTF(batchResetCounter(counter), Len(batches) + 1,
                                       options, size, <<>>).calls
    /\ batches' = Append(batches,
           [kind |-> "async", first |-> Len(calls) + 1, size |-> size,
            counterBefore |-> counter,
            counterAfter |-> startBuildsTF(batchResetCounter(counter), Len(batches) + 1,
                                           options, size, <<>>).counter,
            status |-> "pending", err |-> NoError, results |-> <<>>])
    /\ UNCHANGED <<cfg, engineFactory, resets, w_env>>

(***************************************************************************)
(* Properties of that TypeFactory (specification SpecTF).                  *)
(***************************************************************************)
\* C26: validation precedes resolution.  A build that fails with the
\* missing-required-arguments error has invoked no producer, advanced no
\* generator, built no nested engine and not called the post-build
\* function: what its schema holds is as it was when the build resumed.
C26_ValidationFirst ==
    \A k \in 1..Len(calls) :
       (calls[k].pc = "failed" /\ calls[k].err.name = "MISSING_BUILD_ARGS")
       => /\ calls[k].envAfter = calls[k].envBefore
          /\ calls[k].fArg = -1
          /\ calls[k].result = UndefT

\* a build failed for its missing argument while another build of the same
\* engine, given the argument, invoked the producer, advanced the generator
\* and built the nested engine
C26_Witness ==
    /\ cfg.schema = RequiredSchema
    /\ Len(calls) >= 2
    /\ calls[1].pc = "failed" /\ calls[1].err.name = "MISSING_BUILD_ARGS"
    /\ calls[2].pc = "done" /\ calls[2].envBefore = NoEnv
    /\ calls[1].envBefore = calls[2].envAfter
    /\ w_env.refCalls = <<1>> /\ Len(w_env.genOut) = 1 /\ w_env.nested = 1

\* C27: a function-valued defaults is called with the iteration of the
\* build, the index that is passed to the producers, to a function-valued
\* overrides and to the post-build function.
C27_DefaultsIteration ==
    \A k \in 1..Len(calls) : cfg.fn => calls[k].dArg = calls[k].iteration

\* what holds: defaults is called with the counter after the increment, one
\* more than the iteration the overrides and the post-build function get
C27_DefaultsOneAhead ==
    \A k \in 1..Len(calls) :
       /\ cfg.fn => calls[k].dArg = calls[k].iteration + 1
       /\ calls[k].oArg \in {-1, calls[k].iteration}
       /\ calls[k].fArg \in {-1, calls[k].iteration}

\* C28: batch resets the counter before it starts.  Whatever the counter
\* was, the builds of batch(size) get the iterations 0, 1, ..., size - 1 in
\* their order and the counter is size when batch returns.
C28_BatchResets ==
    \A b \in 1..Len(batches) :
       /\ batches[b].counterAfter = batches[b].size
       /\ \A i \in 1..batches[b].size :
             calls[batches[b].first + i - 1].iteration = i - 1

\* two batches started one after the other, none awaited: the second found
\* the counter at the size of the first and both use the same iterations
C28_Witness ==
    /\ Len(batches) = 2
    /\ batches[1].status = "pending" /\ batches[2].status = "pending"
    /\ batches[2].counterBefore = batches[1].size
    /\ calls[batches[1].first].iteration = 0
    /\ calls[batches[2].first].iteration = 0
    /\ counter = batches[2].size

(***************************************************************************)
(* The FixtureFactory of src/src/fixture-factory.ts: an engine (counter,   *)
(* cfg, the generator of w_env) and one fixture file.  The four fixture    *)
(* methods are called one after the other, each awaited.                   *)
(***************************************************************************)
MaxFixtureCalls == 3

VARIABLES
    f_file,   \* the fixture file: [exists, data], data being its parsed content
    f_log     \* the fixture calls made so far

fixtureVars == <<f_file, f_log>>

NoFile == [exists |-> FALSE, data |-> NullT]
File(tr) == [exists |-> TRUE, data |-> tr]

\* JSON.parse(JSON.stringify(value)): a key whose value is undefined is
\* dropped, an undefined element of an array becomes null
RECURSIVE jsonRoundTrip(_)
jsonRoundTrip(tr) ==
    IF tr.t = "rec"
    THEN LET ks == SelectSeq(tr.keys, LAMBDA k : ValT(tr, k).t # "undef")
         IN  RecT(ks, [i \in 1..Len(ks) |-> jsonRoundTrip(ValT(tr, ks[i]))])
    ELSE IF tr.t = "arr"
    THEN ArrT([i \in 1..Len(tr.vals) |->
                  IF tr.vals[i].t = "undef" THEN NullT ELSE jsonRoundTrip(tr.vals[i])])
    ELSE tr

\* the truthiness of a parsed file content
truthy(tr) == ~(tr.t \in {"null", "undef"} \/ (tr.t = "num" /\ tr.v = 0))

ArrayIndex == <<"[0]", "[1]", "[2]", "[3]">>

\* mapKeyPaths: the key paths of a value, those of the elements of an array
\* under the index of the element
RECURSIVE mapKeyPaths(_, _)
mapKeyPaths(tr, prefix) ==
    IF tr.t = "rec"
    THEN UNION { {Append(prefix, tr.keys[i])}
                    \cup mapKeyPaths(tr.vals[i], Append(prefix, tr.keys[i]))
                 : i \in 1..Len(tr.keys) }
    ELSE IF tr.t = "arr"
    THEN UNION { {Append(prefix, ArrayIndex[i])}
                    \cup mapKeyPaths(tr.vals[i], Append(prefix, ArrayIndex[i]))
                 : i \in 1..Len(tr.vals) }
    ELSE {}

haveSameKeyPaths(a, b) == mapKeyPaths(a, <<>>) = mapKeyPaths(b, <<>>)

\* variant: a stored fixture is returned whatever its key paths
getOrCreateFixture_anyKeys(file, build) ==
    IF file.exists /\ truthy(file.data)
    THEN [returned |-> file.data, wrote |-> FALSE, file |-> file]
    ELSE [returned |-> build, wrote |-> TRUE, file |-> File(jsonRoundTrip(build))]

\* getOrCreateFixture(fileName, build): the value returned and the file
getOrCreateFixture(file, build) ==
    IF file.exists /\ truthy(file.data) /\ haveSameKeyPaths(build, file.data)
    THEN [returned |-> file.data, wrote |-> FALSE, file |-> file]
    ELSE [returned |-> build, wrote |-> TRUE, file |-> File(jsonRoundTrip(build))]

\* this.build / buildSync run size times one after the other, the way batch /
\* batchSync run them: a build takes the counter, increments it and resolves
\* the schema; batchSync stops at the build that throws
RECURSIVE buildMany(_, _, _, _, _, _)
buildMany(st, schema, size, isSync, err, acc) ==
    IF Len(acc) = size \/ (isSync /\ err # NoError)
    THEN [counter |-> st.counter, env |-> st.env, err |-> err, values |-> acc]
    ELSE buildMany([counter |-> st.counter + 1,
                    env |-> validateAndParse(schema, st.counter, st.env).env],
                   schema, size, isSync,
                   IF err # NoError THEN err
                   ELSE validateAndParse(schema, st.counter, st.env).err,
                   Append(acc, validateAndParse(schema, st.counter, st.env).value))

\* the record of a fixture call: b what its builds gave, g the outcome of
\* getOrCreateFixture
fixtureRecord(kind, size, c, env, file, b, built, g) ==
    [counter |-> b.counter, env |-> b.env,
     file |-> IF b.err = NoError THEN g.file ELSE file,
     entry |-> [kind |-> kind, size |-> size, err |-> b.err,
                built |-> IF b.err = NoError THEN built ELSE UndefT,
                fileBefore |-> file,
                read |-> b.err = NoError,
                wrote |-> b.err = NoError /\ g.wrote,
                returned |-> IF b.err = NoError THEN g.returned ELSE UndefT,
                counterBefore |-> c, counterAfter |-> b.counter,
                genBefore |-> Len(env.genOut), genAfter |-> Len(b.env.genOut)]]

\* variant: the file is looked at first and a stored fixture is returned
\* without a build
fixtureBuilt_fileFirst(kind, size, c, env, file, b, built) ==
    IF file.exists /\ truthy(file.data)
    THEN fixtureRecord(kind, size, c, env, file,
                       [counter |-> c, env |-> env, err |-> NoError], file.data,
                       [returned |-> file.data, wrote |-> FALSE, file |-> file])
    ELSE fixtureRecord(kind, size, c, env, file, b, built,
                       getOrCreateFixture(file, built))

\* const instance = await this.build(options);
\* return this.getOrCreateFixture(fileName, instance)
fixtureBuilt(kind, size, c, env, file, b, built) ==
    fixtureRecord(kind, size, c, env, file, b, built, getOrCreateFixture(file, built))

\* fixture / fixtureSync (size 0) and fixtureBatch / fixtureBatchSync
fixtureCall(kind, size, c, env, file, schema) ==
    IF size = 0
    THEN fixtureBuilt(kind, size, c, env, file,
                      buildMany([counter |-> c, env |-> env], schema, 1,
                                kind = "fixtureSync", NoError, <<>>),
                      buildMany([counter |-> c, env |-> env], schema, 1,
                                kind = "fixtureSync", NoError, <<>>).values[1])
    ELSE fixtureBuilt(kind, size, c, env, file,
                      buildMany([counter |-> c, env |-> env], schema, size,
                                kind = "fixtureBatchSync", NoError, <<>>),
                      ArrT(buildMany([counter |-> c, env |-> env], schema, size,
                                     kind = "fixtureBatchSync", NoError, <<>>).values))

FixtureSchemas ==
    { RecT(<<"a", "g">>, <<RefSyncT, GenT>>),
      RecT(<<"a", "g">>, <<RequiredT, GenT>>),
      RecT(<<"g", "e">>, <<GenT, UndefT>>) }

\* what the file holds before the first call
FixtureFiles ==
    { NoFile, File(NullT), File(NumT(0)),
      File(RecT(<<"a", "g">>, <<NumT(9), NumT(9)>>)),
      File(RecT(<<"g">>, <<NumT(9)>>)),
      File(ArrT(<<RecT(<<"a", "g">>, <<NumT(9), NumT(9)>>),
                  RecT(<<"a", "g">>, <<NumT(9), NumT(9)>>)>>)) }

FixtureKinds ==
    { <<"fixture", 0>>, <<"fixtureSync", 0>>,
      <<"fixtureBatch", MaxBatch>>, <<"fixtureBatchSync", MaxBatch>> }

InitFixture ==
    /\ counter = 0
    /\ cfg \in {[fn |-> FALSE, async |-> FALSE, schema |-> s] : s \in FixtureSchemas}
    /\ engineFactory = NoFactory
    /\ calls = <<>> /\ batches = <<>> /\ resets = <<>>
    /\ w_env = NoEnv
    /\ f_file \in FixtureFiles
    /\ f_log = <<>>

\* one call of fixture, fixtureSync, fixtureBatch or fixtureBatchSync
Fixture(kind, size) ==
    /\ Len(f_log) < MaxFixtureCalls
    /\ counter' = fixtureCall(kind, size, counter, w_env, f_file, cfg.schema).counter
    /\ w_env' = fixtureCall(kind, size, counter, w_env, f_file, cfg.schema).env
    /\ f_file' = fixtureCall(kind, size, counter, w_env, f_file, cfg.schema).file
    /\ f_log' = Append(f_log,
                       fixtureCall(kind, size, counter, w_env, f_file, cfg.schema).entry)
    /\ UNCHANGED <<cfg, engineFactory, calls, batches, resets>>

(***************************************************************************)
(* Properties of the fixture calls (specification SpecFixture).            *)
(***************************************************************************)
\* the file a call of the log left behind
FileAfter(i) == IF i = Len(f_log) THEN f_file ELSE f_log[i + 1].fileBefore

\* the stored fixture is used: the file exists, its content is truthy and
\* has the key paths of the value built
CacheHit(e) ==
    /\ e.fileBefore.exists
    /\ truthy(e.fileBefore.data)
    /\ mapKeyPaths(e.built, <<>>) = mapKeyPaths(e.fileBefore.data, <<>>)

C24_WitnessOverwritten ==
    /\ Len(f_log) = 1 /\ f_log[1].wrote
    /\ f_log[1].fileBefore.exists /\ truthy(f_log[1].fileBefore.data)

C30_WitnessFailed ==
    /\ Len(f_log) = 1 /\ f_log[1].err # NoError
    /\ f_log[1].fileBefore.exists /\ f_file = f_log[1].fileBefore

(***************************************************************************)
(* The generator of the JSON Schema factory, src/src/json-schema.ts.  A    *)
(* schema is a record [type, ref, keys, vals, required, items, minItems,   *)
(* maxItems, allOf, anyOf]; ref says that it holds $ref: '#'.  A generated *)
(* value is a tree whose objects and arrays carry in v the recursion depth *)
(* at which they were generated.  The choices of faker are every choice.   *)
(***************************************************************************)
MaxDepth == 3
MaxFuel == 12
MaxGenerated == 2

VARIABLES
    j_schema,    \* the schema the factory was created from
    j_maxDepth,  \* options.maxDepth
    j_out        \* the values generated so far

jsonVars == <<j_schema, j_maxDepth, j_out>>

JsonSchema(type, keys, vals, required, items, allOf, anyOf, ref) ==
    [type |-> type, ref |-> ref, keys |-> keys, vals |-> vals, required |-> required,
     items |-> items, minItems |-> 1, maxItems |-> 2, allOf |-> allOf, anyOf |-> anyOf]
JsonType(type) == JsonSchema(type, <<>>, <<>>, <<>>, <<>>, <<>>, <<>>, FALSE)
JsonObject(keys, vals, required) ==
    JsonSchema("object", keys, vals, required, <<>>, <<>>, <<>>, FALSE)
JsonNode(t, depth, keys, vals) == [t |-> t, v |-> depth, keys |-> keys, vals |-> vals]

\* variant: no depth limit
depthReached_never(depth, maxDepth) == FALSE

\* depth >= (options.maxDepth ?? 10)
depthReached(depth, maxDepth) == depth >= maxDepth

\* variant: no required property is generated
requiredProps_none(schema) == <<>>

\* the entries of required that are strings and keys of properties
requiredProps(schema) ==
    SelectSeq(schema.required, LAMBDA p : IndexOf(schema.keys, p) # 0)

\* the subschema a value generated for an allOf entry with $ref stands for:
\* its keys, typed by the typeof of their values
schemaOfValue(x) ==
    JsonObject(x.keys,
               [i \in 1..Len(x.keys) |->
                   JsonType(IF x.vals[i].t = "rec" THEN "object"
                            ELSE IF x.vals[i].t = "arr" THEN "array"
                            ELSE IF x.vals[i].t = "null" THEN "null"
                            ELSE IF x.vals[i].t = "num" THEN "number"
                            ELSE "string")],
               <<>>)

\* one round of the loop over allOf: the properties, the required list and
\* the other keys of the subschema are merged into mergedSchema
mergeSubSchema(m, sub) ==
    [m EXCEPT
       !.keys = @ \o SelectSeq(sub.keys, LAMBDA k : IndexOf(m.keys, k) = 0),
       !.vals = [i \in 1..Len(m.keys) |->
                    IF IndexOf(sub.keys, m.keys[i]) # 0
                    THEN sub.vals[IndexOf(sub.keys, m.keys[i])] ELSE m.vals[i]]
                \o [i \in 1..Len(SelectSeq(sub.keys, LAMBDA k : IndexOf(m.keys, k) = 0)) |->
                       sub.vals[IndexOf(sub.keys,
                                        SelectSeq(sub.keys,
                                                  LAMBDA k : IndexOf(m.keys, k) = 0)[i])]],
       !.required = @ \o SelectSeq(sub.required, LAMBDA p : IndexOf(m.required, p) = 0),
       !.items = IF sub.items # <<>> THEN sub.items ELSE @,
       !.allOf = IF sub.allOf # <<>> THEN sub.allOf ELSE @,
       !.anyOf = IF sub.anyOf # <<>> THEN sub.anyOf ELSE @]

RECURSIVE createValueGenerator(_, _, _, _)
RECURSIVE mergeAllOf(_, _, _, _, _, _)
RECURSIVE generateProps(_, _, _, _, _, _, _)
RECURSIVE generateItems(_, _, _, _, _, _)

\* the loop over schema.allOf from entry j on: the merged schemas it can end
\* with, an entry with $ref being replaced by the schema of a value
\* generated for it when that value is an object
mergeAllOf(schema, j, m, maxDepth, depth, fuel) ==
    IF j > Len(schema.allOf) THEN {m}
    ELSE IF schema.allOf[j].ref
    THEN UNION { mergeAllOf(schema, j + 1,
                            mergeSubSchema(m, IF x.t = "rec" THEN schemaOfValue(x)
                                              ELSE schema.allOf[j]),
                            maxDepth, depth, fuel)
                 : x \in createValueGenerator(schema.allOf[j], maxDepth, depth + 1,
                                              fuel - 1) }
    ELSE mergeAllOf(schema, j + 1, mergeSubSchema(m, schema.allOf[j]),
                    maxDepth, depth, fuel)

\* the loops of generateObject over the properties ks, from the j-th on
generateProps(schema, ks, j, acc, maxDepth, depth, fuel) ==
    IF j > Len(ks) THEN {acc}
    ELSE UNION { generateProps(schema, ks, j + 1, SetKeyT(acc, ks[j], x),
                               maxDepth, depth, fuel)
                 : x \in createValueGenerator(schema.vals[IndexOf(schema.keys, ks[j])],
                                              maxDepth, depth + 1, fuel - 1) }

\* generateObject: {} at the depth limit, else the required properties and
\* up to three of the optional ones
generateObject(schema, maxDepth, depth, fuel) ==
    IF depthReached(depth, maxDepth)
    THEN {JsonNode("rec", depth, <<>>, <<>>)}
    ELSE UNION { generateProps(schema,
                               requiredProps(schema)
                                  \o SelectSeq(schema.keys, LAMBDA k : k \in sel),
                               1, JsonNode("rec", depth, <<>>, <<>>),
                               maxDepth, depth, fuel)
                 : sel \in { s \in SUBSET { schema.keys[i] : i \in 1..Len(schema.keys) } :
                               /\ Cardinality(s) <= 3
                               /\ \A k \in s : IndexOf(schema.required, k) = 0 } }

\* Array.from({length}, () => createValueGenerator(schema.items, ...))
generateItems(schema, length, acc, maxDepth, depth, fuel) ==
    IF Len(acc.vals) = length THEN {acc}
    ELSE UNION { generateItems(schema, length, [acc EXCEPT !.vals = Append(@, x)],
                               maxDepth, depth, fuel)
                 : x \in createValueGenerator(schema.items[1], maxDepth, depth + 1,
                                              fuel - 1) }

\* generateArray: [] without items and at the depth limit
generateArray(schema, maxDepth, depth, fuel) ==
    IF schema.items = <<>> \/ depthReached(depth, maxDepth)
    THEN {JsonNode("arr", depth, <<>>, <<>>)}
    ELSE UNION { generateItems(schema, n, JsonNode("arr", depth, <<>>, <<>>),
                               maxDepth, depth, fuel)
                 : n \in schema.minItems..schema.maxItems }

\* createValueGenerator(schema, faker, options, depth): the values it can
\* return; fuel bounds the chain of nested calls
createValueGenerator(schema, maxDepth, depth, fuel) ==
    IF fuel = 0 THEN {JsonNode("diverged", depth, <<>>, <<>>)}
    ELSE IF schema.ref
    THEN IF 2 * depth >= maxDepth
         THEN {JsonNode("rec", depth, <<>>, <<>>)}
         ELSE createValueGenerator([schema EXCEPT !.ref = FALSE], maxDepth,
                                   depth + 1, fuel - 1)
    ELSE IF schema.allOf # <<>>
    THEN UNION { createValueGenerator(m, maxDepth, depth, fuel - 1)
                 : m \in mergeAllOf(schema, 1,
                                    JsonSchema(IF schema.type = "none" THEN "object"
                                               ELSE schema.type,
                                               <<>>, <<>>, <<>>, <<>>, <<>>, <<>>, FALSE),
                                    maxDepth, depth, fuel) }
    ELSE IF schema.anyOf # <<>>
    THEN IF SelectSeq(schema.anyOf, LAMBDA x : x.ref => 2 * depth < maxDepth) = <<>>
         THEN {JsonNode("rec", depth, <<>>, <<>>)}
         ELSE UNION { createValueGenerator(x, maxDepth, depth, fuel - 1)
                      : x \in { schema.anyOf[i] : i \in
                                  { n \in 1..Len(schema.anyOf) :
                                      schema.anyOf[n].ref => 2 * depth < maxDepth } } }
    ELSE IF schema.type = "array" THEN generateArray(schema, maxDepth, depth, fuel)
    ELSE IF schema.type = "object" THEN generateObject(schema, maxDepth, depth, fuel)
    ELSE IF schema.type = "null" THEN {NullT}
    ELSE IF schema.type \in {"integer", "number"} THEN {NumT(1)}
    ELSE {Leaf("word", 0)}

IntegerSchema == JsonType("integer")

\* {type: object, properties: {id, name, child: {x}}, required: [id, child, zz]}
NestedSchema ==
    JsonObject(<<"id", "name", "child">>,
               <<IntegerSchema, JsonType("string"),
                 JsonObject(<<"x">>, <<IntegerSchema>>, <<"x">>)>>,
               <<"id", "child", "zz">>)

\* a property that refers to the schema itself
SelfRefSchema ==
    JsonObject(<<"value", "next">>,
               <<IntegerSchema,
                 JsonSchema("object", <<"value">>, <<IntegerSchema>>, <<"value">>,
                            <<>>, <<>>, <<>>, TRUE)>>,
               <<"value", "next">>)

JsonSchemas ==
    { NestedSchema,
      SelfRefSchema,
      JsonSchema("none", <<>>, <<>>, <<>>, <<>>, <<>>, <<>>, TRUE),
      JsonSchema("none", <<>>, <<>>, <<>>, <<>>,
                 <<JsonSchema("none", <<>>, <<>>, <<>>, <<>>, <<>>, <<>>, TRUE),
                   JsonObject(<<"a">>, <<JsonObject(<<"b">>, <<IntegerSchema>>, <<"b">>)>>,
                              <<"a">>)>>,
                 <<>>, FALSE),
      JsonObject(<<"u">>,
                 <<JsonSchema("none", <<>>, <<>>, <<>>, <<>>, <<>>,
                              <<JsonSchema("object", <<"w">>, <<IntegerSchema>>, <<"w">>,
                                           <<>>, <<>>, <<>>, TRUE),
                                IntegerSchema>>, FALSE)>>,
                 <<"u">>),
      JsonSchema("array", <<>>, <<>>, <<>>,
                 <<JsonObject(<<"a", "k">>,
                              <<IntegerSchema,
                                JsonSchema("array", <<>>, <<>>, <<>>, <<IntegerSchema>>,
                                           <<>>, <<>>, FALSE)>>,
                              <<"a", "k">>)>>,
                 <<>>, <<>>, FALSE),
      \* allOf of an entry that holds an allOf of a self-reference, and of
      \* an entry with optional properties
      JsonSchema("none", <<>>, <<>>, <<>>, <<>>,
                 <<JsonSchema("object", <<"p">>, <<IntegerSchema>>, <<"p">>, <<>>,
                              <<JsonSchema("object", <<"r">>, <<JsonType("null")>>,
                                           <<"r">>, <<>>, <<>>, <<>>, TRUE)>>,
                              <<>>, FALSE),
                   JsonObject(<<"q", "s">>,
                              <<JsonSchema("array", <<>>, <<>>, <<>>, <<IntegerSchema>>,
                                           <<>>, <<>>, FALSE),
                                JsonType("string")>>,
                              <<>>)>>,
                 <<>>, FALSE),
      \* anyOf (or oneOf) at the root, an entry being a self-reference
      JsonSchema("none", <<>>, <<>>, <<>>, <<>>, <<>>,
                 <<JsonSchema("object", <<"v", "more">>,
                              <<IntegerSchema,
                                JsonSchema("array", <<>>, <<>>, <<>>,
                                           <<JsonSchema("integer", <<>>, <<>>, <<>>, <<>>,
                                                        <<>>, <<>>, TRUE)>>,
                                           <<>>, <<>>, FALSE)>>,
                              <<"v">>, <<>>, <<>>, <<>>, TRUE),
                   JsonType("null"),
                   JsonObject(<<"a">>, <<IntegerSchema>>, <<>>)>>,
                 FALSE) }

InitJson ==
    /\ j_schema \in JsonSchemas
    /\ j_maxDepth \in 0..MaxDepth
    /\ j_out = <<>>

\* one build of the factory: generated = createValueGenerator(schema, faker,
\* options, 0), or generateArray(schema, faker, options, 0) for an array
Generate ==
    /\ Len(j_out) < MaxGenerated
    /\ \E x \in (IF j_schema.type = "array"
                 THEN generateArray(j_schema, j_maxDepth, 0, MaxFuel)
                 ELSE createValueGenerator(j_schema, j_maxDepth, 0, MaxFuel)) :
          j_out' = Append(j_out, x)
    /\ UNCHANGED <<j_schema, j_maxDepth>>

(***************************************************************************)
(* Properties of the generator (specification SpecJson).                   *)
(***************************************************************************)
\* the objects generated for an object schema hold its required properties,
\* those generated below the depth limit when limited is true
RECURSIVE HoldsRequired(_, _, _)
HoldsRequired(schema, x, limited) ==
    IF schema.ref \/ schema.allOf # <<>> \/ schema.anyOf # <<>> THEN TRUE
    ELSE IF schema.type = "object"
    THEN /\ x.t = "rec"
         /\ (limited /\ x.v >= j_maxDepth)
            \/ \A i \in 1..Len(schema.keys) :
                  /\ IndexOf(schema.required, schema.keys[i]) # 0
                     => HasKeyT(x, schema.keys[i])
                  /\ HasKeyT(x, schema.keys[i])
                     => HoldsRequired(schema.vals[i], ValT(x, schema.keys[i]), limited)
    ELSE IF schema.type = "array"
    THEN /\ x.t = "arr"
         /\ \A i \in 1..Len(x.vals) : HoldsRequired(schema.items[1], x.vals[i], limited)
    ELSE TRUE

C21_WitnessCut ==
    /\ j_schema = NestedSchema /\ j_maxDepth = 1 /\ Len(j_out) >= 1
    /\ HasKeyT(j_out[1], "child") /\ ValT(j_out[1], "child").keys = <<>>

\* no call chain ran out, the objects and arrays that are not empty were
\* generated below the depth limit
RECURSIVE WithinDepth(_)
WithinDepth(x) ==
    /\ x.t # "diverged"
    /\ (x.t \in {"rec", "arr"} /\ x.vals # <<>>) => x.v < j_maxDepth
    /\ \A i \in 1..Len(x.vals) : WithinDepth(x.vals[i])

C22_WitnessZero ==
    /\ j_schema = SelfRefSchema /\ j_maxDepth = 0 /\ Len(j_out) >= 1
    /\ j_out[1] = JsonNode("rec", 0, <<>>, <<>>)

(***************************************************************************)
(* The arrays of the Zod factory: generateFromZod of src/unnamed/part_007  *)
(* and generateFactorySchema of src/unnamed/part_010 compute the length in *)
(* the same way.  An array schema is the list of its checks.               *)
(***************************************************************************)
MaxZodLength == 7

VARIABLES
    z_checks,   \* _def.checks of the array schema
    z_out       \* the outcomes of the builds

zodVars == <<z_checks, z_out>>

Max(a, b) == IF a >= b THEN a ELSE b
Min(a, b) == IF a <= b THEN a ELSE b

\* the loop over the checks, from the j-th on: minLength and maxLength
RECURSIVE lengthBounds(_, _, _, _)
lengthBounds(checks, j, minLength, maxLength) ==
    IF j > Len(checks) THEN <<minLength, maxLength>>
    ELSE IF checks[j].kind = "min"
    THEN lengthBounds(checks, j + 1, Max(minLength, checks[j].value), maxLength)
    ELSE IF checks[j].kind = "max"
    THEN lengthBounds(checks, j + 1, minLength, Min(maxLength, checks[j].value))
    ELSE lengthBounds(checks, j + 1, minLength, maxLength)

\* the outcomes of generating a z.array(z.string()): faker.number.int
\* throws when max is below min, and else returns any length in min..max
generateZodArray(checks) ==
    IF lengthBounds(checks, 1, 1, 5)[2] < lengthBounds(checks, 1, 1, 5)[1]
    THEN {[err |-> "FakerError", value |-> UndefT]}
    ELSE {[err |-> "none",
           value |-> ArrT([i \in 1..n |-> Leaf("word", 0)])]
          : n \in lengthBounds(checks, 1, 1, 5)[1]..lengthBounds(checks, 1, 1, 5)[2]}

\* z.array(item).min(a).max(b), 0 <= a <= b
ZodArray(a, b) == <<[kind |-> "min", value |-> a], [kind |-> "max", value |-> b]>>

InitZod ==
    /\ z_checks \in {ZodArray(a, b) : a, b \in 0..MaxZodLength} \cup {<<>>}
    /\ z_checks # <<>> => z_checks[1].value <= z_checks[2].value
    /\ z_out = <<>>

\* factory.build() of createFactoryFromZod(schema)
BuildZod ==
    /\ Len(z_out) < 2
    /\ \E r \in generateZodArray(z_checks) : z_out' = Append(z_out, r)
    /\ UNCHANGED z_checks

(***************************************************************************)
(* Properties of the Zod arrays (specification SpecZod).                   *)
(***************************************************************************)
\* C23: array length.  For every array schema z.array(item).min(a).max(b)
\* with 0 <= a <= b, build succeeds and returns an array whose length L
\* satisfies a <= L <= b.
C23_ArrayLength ==
    \A i \in 1..Len(z_out) :
       z_checks # <<>> =>
          /\ z_out[i].err = "none"
          /\ z_checks[1].value <= Len(z_out[i].value.vals)
          /\ Len(z_out[i].value.vals) <= z_checks[2].value

\* what the code does: the length is between max(1, a) and min(5, b) when
\* there is such a length, and else the build fails
C23_ClampedLength ==
    \A i \in 1..Len(z_out) :
       z_checks # <<>> =>
          IF Max(1, z_checks[1].value) <= Min(5, z_checks[2].value)
          THEN /\ z_out[i].err = "none"
               /\ Max(1, z_checks[1].value) <= Len(z_out[i].value.vals)
               /\ Len(z_out[i].value.vals) <= Min(5, z_checks[2].value)
          ELSE z_out[i].err = "FakerError"

\* the array of the test, z.array(z.string()).min(3).max(5), built twice
C23_Witness ==
    /\ z_checks = ZodArray(3, 5) /\ Len(z_out) = 2
    /\ Len(z_out[1].value.vals) = 3 /\ Len(z_out[2].value.vals) = 5

\* z.array(z.string()).min(6).max(7): the build fails
C23_WitnessFails ==
    /\ z_checks = ZodArray(6, 7) /\ Len(z_out) = 1
    /\ z_out[1].err = "FakerError"

(***************************************************************************)
(* Specifications.                                                          *)
(***************************************************************************)
vars == <<counter, cfg, engineFactory, calls, batches, resets,
          heap, heapBefore, m_pc, m_target, m_sources, m_result, m_threw,
          l_kind, g_list, g_counter, g_last, g_out, r_args, r_invoked, r_returned,
          w_schema, w_sync, w_pc, w_iteration, w_stack, w_pending, w_log,
          w_env, w_results, f_file, f_log,
          j_schema, j_maxDepth, j_out, z_checks, z_out>>

adapterVars == <<jsonVars, zodVars>>

otherVars == <<mergeVars, leafVars, walkVars, fixtureVars, adapterVars>>

MergeIdle ==
    /\ heap = <<>> /\ heapBefore = <<>> /\ m_pc = "idle"
    /\ m_target = Undefined /\ m_sources = <<>>
    /\ m_result = Undefined /\ m_threw = FALSE

\* no engine is used
BuildIdle ==
    /\ counter = 0
    /\ cfg = [fn |-> FALSE, async |-> FALSE, schema |-> PlainSchema]
    /\ engineFactory = NoFactory
    /\ calls = <<>> /\ batches = <<>> /\ resets = <<>>

\* no generator and no Ref is constructed
LeafIdle ==
    /\ l_kind = "none"
    /\ g_list = <<>> /\ g_counter = 0 /\ g_last = Undefined /\ g_out = <<>>
    /\ r_args = <<>> /\ r_invoked = <<>> /\ r_returned = <<>>

\* no schema is walked
WalkIdle ==
    /\ w_schema = RecT(<<>>, <<>>) /\ w_sync = FALSE /\ w_pc = "none"
    /\ w_iteration = 0 /\ w_stack = <<>> /\ w_pending = <<>> /\ w_log = <<>>
    /\ w_env = NoEnv /\ w_results = <<>>

\* no fixture file is used
FixtureIdle == f_file = NoFile /\ f_log = <<>>

\* no JSON Schema factory is used
JsonIdle == j_schema = IntegerSchema /\ j_maxDepth = 0 /\ j_out = <<>>

\* no Zod factory is used
ZodIdle == z_checks = <<>> /\ z_out = <<>>


Init == InitBuild /\ MergeIdle /\ LeafIdle /\ WalkIdle /\ FixtureIdle /\ JsonIdle /\ ZodIdle

Next ==
    \/ \E o \in OptionSet : BuildSync(o) /\ UNCHANGED otherVars
    \/ \E o \in OptionSet : BuildStart(o) /\ UNCHANGED otherVars
    \/ \E k \in 1..MaxCalls : BuildResumed(k) /\ UNCHANGED otherVars
    \/ \E k \in 1..MaxCalls : BuildFactoryResolved(k) /\ UNCHANGED otherVars
    \/ \E n \in 2..MaxBatch, o \in OptionSet : Batch(n, o) /\ UNCHANGED otherVars
    \/ \E n \in 2..MaxBatch, o \in OptionSet : BatchSync(n, o) /\ UNCHANGED otherVars
    \/ \E v \in ResetValues : ResetCounter(v) /\ UNCHANGED otherVars

Spec == Init /\ [][Next]_vars

\* the specification of the calls of merge; the factory is not used
InitMerge == InitMergeCall /\ BuildIdle /\ LeafIdle /\ WalkIdle /\ FixtureIdle /\ JsonIdle /\ ZodIdle

NextMerge == MergeCall /\ UNCHANGED <<buildVars, leafVars, walkVars, fixtureVars, adapterVars>>

SpecMerge == InitMerge /\ [][NextMerge]_vars

\* the specification of the generators and of Ref
InitLeaves == InitLeaf /\ BuildIdle /\ MergeIdle /\ WalkIdle /\ FixtureIdle /\ JsonIdle /\ ZodIdle

NextLeaves ==
    \/ IterateNext /\ UNCHANGED <<buildVars, mergeVars, walkVars, fixtureVars, adapterVars>>
    \/ SampleNext /\ UNCHANGED <<buildVars, mergeVars, walkVars, fixtureVars, adapterVars>>
    \/ CallHandler /\ UNCHANGED <<buildVars, mergeVars, walkVars, fixtureVars, adapterVars>>
    \/ \E i \in WalkerIterations :
          ResolveRef(i) /\ UNCHANGED <<buildVars, mergeVars, walkVars, fixtureVars, adapterVars>>

SpecLeaves == InitLeaves /\ [][NextLeaves]_vars

\* the specification of the walk of a schema
InitWalker == InitWalk /\ BuildIdle /\ MergeIdle /\ LeafIdle /\ FixtureIdle /\ JsonIdle /\ ZodIdle

NextWalk ==
    \/ \E i \in WalkIterations :
          WalkStart(i) /\ UNCHANGED <<buildVars, mergeVars, leafVars, fixtureVars, adapterVars>>
    \/ WalkKey /\ UNCHANGED <<buildVars, mergeVars, leafVars, fixtureVars, adapterVars>>
    \/ \E i \in 1..Len(w_pending) : WalkSettle(i) /\ UNCHANGED <<buildVars, mergeVars, leafVars, fixtureVars, adapterVars>>
    \/ WalkReturn /\ UNCHANGED <<buildVars, mergeVars, leafVars, fixtureVars, adapterVars>>

SpecWalk == InitWalker /\ [][NextWalk]_vars

\* the specification of the TypeFactory of src/src/type-factory.ts
InitTypeFactory ==
    /\ InitTF /\ MergeIdle /\ LeafIdle /\ FixtureIdle /\ JsonIdle /\ ZodIdle
    /\ w_schema = RecT(<<>>, <<>>) /\ w_sync = FALSE /\ w_pc = "none"
    /\ w_iteration = 0 /\ w_stack = <<>> /\ w_pending = <<>> /\ w_log = <<>>
    /\ w_results = <<>>

walkOnlyVars == <<w_schema, w_sync, w_pc, w_iteration, w_stack, w_pending, w_log,
                  w_results>>

NextTF ==
    \/ \E o \in OptionSetTF :
          BuildTF(o) /\ UNCHANGED <<mergeVars, leafVars, walkOnlyVars, fixtureVars, adapterVars>>
    \/ \E k \in 1..MaxBuilds :
          ResumeTF(k) /\ UNCHANGED <<mergeVars, leafVars, walkOnlyVars, fixtureVars, adapterVars>>
    \/ \E n \in 2..MaxBatch, o \in OptionSetTF :
          BatchTF(n, o) /\ UNCHANGED <<mergeVars, leafVars, walkOnlyVars, fixtureVars, adapterVars>>

SpecTF == InitTypeFactory /\ [][NextTF]_vars

\* the specification of the fixture calls
InitFixtures ==
    /\ InitFixture /\ MergeIdle /\ LeafIdle /\ JsonIdle /\ ZodIdle
    /\ w_schema = RecT(<<>>, <<>>) /\ w_sync = FALSE /\ w_pc = "none"
    /\ w_iteration = 0 /\ w_stack = <<>> /\ w_pending = <<>> /\ w_log = <<>>
    /\ w_results = <<>>

NextFixture ==
    \E k \in FixtureKinds :
       Fixture(k[1], k[2]) /\ UNCHANGED <<mergeVars, leafVars, walkOnlyVars, adapterVars>>

SpecFixture == InitFixtures /\ [][NextFixture]_vars

\* the specification of the JSON Schema factory
InitJsonFactory ==
    /\ InitJson /\ BuildIdle /\ MergeIdle /\ LeafIdle /\ WalkIdle /\ FixtureIdle
    /\ ZodIdle

NextJson ==
    Generate /\ UNCHANGED <<buildVars, mergeVars, leafVars, walkVars, fixtureVars, zodVars>>

SpecJson == InitJsonFactory /\ [][NextJson]_vars

\* the specification of the arrays of the Zod factory
InitZodFactory ==
    /\ InitZod /\ BuildIdle /\ MergeIdle /\ LeafIdle /\ WalkIdle /\ FixtureIdle
    /\ JsonIdle

NextZod ==
    BuildZod /\ UNCHANGED <<buildVars, mergeVars, leafVars, walkVars, fixtureVars, jsonVars>>

SpecZod == InitZodFactory /\ [][NextZod]_vars

=============================================================================
